---------------------------- MODULE Spec2Model ----------------------------
(***************************************************************************)
(* Tally -> Zoho Books migration: a model of the reconciliation core.      *)
(*                                                                         *)
(*   Part I   ZohoConnector (src/modules/zoho_connector.py): token         *)
(*            lifecycle, throttling, retry/backoff of api_call.            *)
(*   Part II  sync_ledgers_to_zoho (src/ledgers/ledgers_backend.py): the   *)
(*            batch that creates ERP party ledgers as target contacts.     *)
(*   Part III the document batches: sync_journals_to_zoho                  *)
(*            (src/journel/journel_backend.py), sync_bills_to_zoho         *)
(*            (src/bills/bills_backend.py), sync_sales_orders_to_zoho      *)
(*            (src/sales_order/sale_backend.py), each with its resolver    *)
(*            of party names.                                              *)
(*   Part IV  the ERP side: the closure of a root group over the group     *)
(*            hierarchy and the classification of ledgers, as              *)
(*            analyze_ledgers (src/ledgers/ledgers_backend.py) and         *)
(*            get_ledger_map_from_tally (src/journel/journel_backend.py)   *)
(*            with its cache compute them.                                 *)
(*                                                                         *)
(* Time is counted in ticks of 1/TicksPerSecond seconds, the resolution    *)
(* needed to write API_CALL_DELAY = 0.4 s as an integer.                   *)
(***************************************************************************)
EXTENDS Integers, Sequences, FiniteSets, TLC

(***************************************************************************)
(* Program constants                                                       *)
(***************************************************************************)
TicksPerSecond == 10

\* API_CALL_DELAY = 0.4 (seconds), in ticks
API_CALL_DELAY == 4

\* RATE_LIMIT_BACKOFF = 15 (seconds), in ticks
RATE_LIMIT_BACKOFF == 15 * TicksPerSecond

MAX_RETRIES == 3

\* for attempt in range(1, 4) in get_access_token
TOKEN_ATTEMPTS == 3

\* time.time() + (data.get("expires_in", 3600) - 60)
SAFETY_MARGIN == 60 * TicksPerSecond

\* requests.get(..., timeout=30)
REQUEST_TIMEOUT == 30 * TicksPerSecond

(***************************************************************************)
(* Bounds of the model                                                     *)
(***************************************************************************)
\* api_calls made by the callers of the singleton connector
MaxCalls == 2

\* failed outcomes (API requests not answered "ok", token requests not
\* granted) the transport produces in one run
MaxFaults == 3

\* time.time() when the first call starts (an epoch value, far from 0)
StartTime == 1000

\* time the caller spends between two api_calls, in ticks
CallerGaps == {0, 8}

\* round-trip time of an answered API request, in ticks
ApiLatency == {1}

\* round-trip time of a token request, in ticks
TokenLatency == {5}

\* expires_in values the token endpoint declares, in seconds
ExpiresIn == {61, 3600}

(***************************************************************************)
(* Transport outcomes of one API request                                   *)
(***************************************************************************)
RateLimitSignals == {"http429", "code429", "code57", "code58"}

AuthExpiredSignals == {"code14", "invalid_token"}

Signals ==
    RateLimitSignals \cup AuthExpiredSignals
        \cup {"ok", "app_error", "timeout", "exception"}

Methods == {"GET", "PATCH"}

KnownMethods == {"GET", "POST", "PUT"}

\* the values api_call returns
NoResult == [code |-> -1, message |-> "none"]

Success == [code |-> 0, message |-> "success"]

ApplicationError == [code |-> 1002, message |-> "application error"]

AuthFailed == [code |-> 1, message |-> "Auth Failed"]

UnknownMethod == [code |-> 1, message |-> "Unknown method"]

TimedOut == [code |-> 1, message |-> "Request timed out"]

TransportError == [code |-> 1, message |-> "exception"]

RateLimitExceeded ==
    [code |-> 1, message |-> "Max retries exceeded - Zoho rate limit"]

\* the class of a transport outcome, as the branches of api_call test it
Kind(sig) ==
    IF sig \in RateLimitSignals THEN "rate_limit"
    ELSE IF sig \in AuthExpiredSignals THEN "auth_expired"
    ELSE sig

VARIABLES
    \* ZohoConnector fields
    creds,            \* client_id, client_secret and refresh_token all set
    access_token,     \* 0 is None, 1 a token string
    token_expiry,
    last_call_time,   \* _last_call_time
    \* the process
    now,              \* time.time()
    pc,               \* position of the running api_call
    method,
    attempt,          \* loop variable of api_call
    tattempt,         \* loop variable of get_access_token
    result,           \* value returned by the api_call
    calls,            \* api_calls started
    \* observations
    signals,          \* classes of the outcomes received by the running api_call
    sleeps,           \* time.sleep() durations issued by the running api_call
    sent,             \* API requests sent by the running api_call
    refreshed,        \* get_headers of this attempt obtained a new token
    lastReqTime,      \* time the last API request was sent, -1 if none
    lastGap,          \* time between the last two API requests, -1 if none
    faults            \* failed outcomes the transport has produced

connVars == <<creds, access_token, token_expiry, last_call_time, now, pc,
              method, attempt, tattempt, result, calls, signals, sleeps,
              sent, refreshed, lastReqTime, lastGap, faults>>

VARIABLES
    \* the target system
    zohoContacts,     \* the contacts of the organization, in creation order
    nposts,           \* POST /contacts requests issued so far
    lastPost,         \* party (key, contact type) of the last such request
    \* sync_ledgers_to_zoho
    lpc,              \* position of the batch: idle, preload, loop, returned, raised
    lruns,            \* batch runs started
    ledgers_to_sync,
    lidx,             \* idx of the loop (1-based)
    types_to_preload, \* contact types still to pre-load
    page,
    existing_contacts, \* keys of the in-memory directory
    stats,
    failed_names,
    loutcomes         \* per processed record: its index and what was done

zohoVars == <<zohoContacts, nposts, lastPost>>

ledgerVars == <<lpc, lruns, ledgers_to_sync, lidx, types_to_preload, page,
                existing_contacts, stats, failed_names, loutcomes>>

VARIABLES
    \* the document batches (journals, bills, sales orders)
    dpc,              \* position of the batch: idle, loop, returned, error
    druns,            \* batch runs started
    flow,             \* which sync_*_to_zoho is running
    docs_to_sync,     \* journals_to_sync, bills_to_sync, orders_to_sync
    didx,             \* position of the loop over the documents (1-based)
    jline,            \* position of the loop over journal_data["line_items"]
    contact_map,      \* the in-memory directory, in dict (insertion) order
    contactCache,     \* rows of the zoho_contacts_cache table
    dstats,
    docPosts,         \* POST /journals, /bills, /salesorders requests issued
    doutcomes         \* per processed document: what was done

docVars == <<dpc, druns, flow, docs_to_sync, didx, jline, contact_map,
             contactCache, dstats, docPosts, doutcomes>>

VARIABLES
    \* the ERP side: group hierarchy and ledger classification
    tpc,              \* position: idle, closure, classify, fetch_ledgers, done
    impl,             \* the function running: analyze_ledgers or
                      \* get_ledger_map_from_tally
    groups,           \* the group records (name, parent) in use
    ledgers,          \* the ledger dicts handed to analyze_ledgers
    root,             \* group whose descendants are being collected
    gstack,           \* call stack of get_all_descendants
    visited,
    descents,         \* calls of get_all_descendants for this root
    expanded,         \* groups that passed the visited check, in order
    sd,               \* closure of "Sundry Debtors" (customer_groups)
    sc,               \* closure of "Sundry Creditors" (vendor_groups)
    tresult,          \* the value returned
    database_manager, \* the local database module was imported
    db,               \* rows (name, type) of the local database
    ledgerCache,      \* rows (name, ledger_type) of the ledgers cache table
    gets,             \* calls of get_ledger_map_from_tally
    loaded,           \* the last get fetched from Tally
    forced            \* the last get was told to bypass the cache

tallyVars == <<tpc, impl, groups, ledgers, root, gstack, visited, descents,
               expanded, sd, sc, tresult, database_manager, db, ledgerCache,
               gets, loaded, forced>>

VARIABLES
    zoho_contacts,    \* rows of the zoho_contacts table, in rowid order
    zoho_accounts,    \* rows of the zoho_accounts table, in rowid order
    zgets,            \* calls of get_zoho_contacts and get_zoho_accounts
    zlast             \* the last of these calls and the value it returned

cacheVars == <<zoho_contacts, zoho_accounts, zgets, zlast>>

VARIABLES
    tallyGroups       \* the group masters the ERP holds now

erpVars == <<tallyGroups>>

VARIABLES
    gpc,               \* position of sync_groups_to_zoho
    gruns,             \* runs of sync_groups_to_zoho
    mapping,           \* items (group_name, user_type) of the mapping
    tally_groups,      \* groups read from the local database
    tally_ledgers,     \* ledgers read from the local database
    existing_accounts, \* account_name.lower() -> account, as listed
    valid_parents,     \* group name -> (id, type)
    listed,            \* the listing of the chart was answered
    gidx,              \* index of the record at hand in the running phase
    gstats,
    failed_ledgers,
    greqs,             \* the POST and PUT requests of the run
    chart              \* the chart of accounts of the target system

groupVars == <<gpc, gruns, mapping, tally_groups, tally_ledgers,
               existing_accounts, valid_parents, listed, gidx, gstats,
               failed_ledgers, greqs, chart>>

extVars == <<cacheVars, erpVars, groupVars>>

batchVars == <<zohoVars, ledgerVars, docVars, tallyVars, extVars>>

vars == <<connVars, zohoVars, ledgerVars, docVars, tallyVars, extVars>>

(***************************************************************************)
(* ZohoConnector.__init__                                                  *)
(***************************************************************************)
ConnInit ==
    /\ creds \in BOOLEAN
    /\ access_token = 0
    /\ token_expiry = 0
    /\ last_call_time = 0
    /\ now = StartTime
    /\ pc = "idle"
    /\ method = "GET"
    /\ attempt = 0
    /\ tattempt = 0
    /\ result = NoResult
    /\ calls = 0
    /\ signals = <<>>
    /\ sleeps = <<>>
    /\ sent = 0
    /\ refreshed = FALSE
    /\ lastReqTime = -1
    /\ lastGap = -1
    /\ faults = 0

(***************************************************************************)
(* get_access_token: "if self.access_token and time.time() < token_expiry" *)
(***************************************************************************)
TokenValidAlways == access_token # 0

TokenValid == access_token # 0 /\ now < token_expiry

(***************************************************************************)
(* _throttle: the sleep for a given elapsed time                           *)
(***************************************************************************)
ThrottleSleep(elapsed) ==
    IF elapsed < API_CALL_DELAY THEN API_CALL_DELAY - elapsed ELSE 0

(***************************************************************************)
(* api_call: wait = RATE_LIMIT_BACKOFF * attempt                           *)
(***************************************************************************)
BackoffWaitFlat(a) == RATE_LIMIT_BACKOFF

BackoffWait(a) == RATE_LIMIT_BACKOFF * a

(***************************************************************************)
(* api_call: for attempt in range(1, MAX_RETRIES + 1)                      *)
(***************************************************************************)
LastAttemptEarly(a) == a >= MAX_RETRIES - 1

LastAttemptLate(a) == a >= MAX_RETRIES + 1

LastAttempt(a) == a >= MAX_RETRIES

\* "continue": the next iteration, or the return after the loop
Continue ==
    IF LastAttempt(attempt)
    THEN /\ pc' = "done"
         /\ result' = RateLimitExceeded
         /\ attempt' = attempt
    ELSE /\ pc' = "throttle"
         /\ result' = result
         /\ attempt' = attempt + 1

\* a caller invokes zoho.api_call(method, endpoint, ...)
StartCall(m, gap) ==
    /\ pc = "idle"
    /\ calls < MaxCalls
    /\ calls' = calls + 1
    /\ now' = now + gap
    /\ method' = m
    /\ attempt' = 1
    /\ result' = NoResult
    /\ signals' = <<>>
    /\ sleeps' = <<>>
    /\ sent' = 0
    /\ pc' = "throttle"
    /\ UNCHANGED <<creds, access_token, token_expiry, last_call_time,
                   tattempt, refreshed, lastReqTime, lastGap, faults>>
    /\ UNCHANGED batchVars

\* self._throttle()
Throttle ==
    /\ pc = "throttle"
    /\ now' = now + ThrottleSleep(now - last_call_time)
    /\ last_call_time' = now'
    /\ pc' = "headers"
    /\ UNCHANGED <<creds, access_token, token_expiry, method, attempt,
                   tattempt, result, calls, signals, sleeps, sent, refreshed,
                   lastReqTime, lastGap, faults>>
    /\ UNCHANGED batchVars

\* self.get_headers() -> get_access_token(), up to the refresh loop
GetHeaders ==
    /\ pc = "headers"
    /\ refreshed' = FALSE
    /\ IF TokenValid
       THEN /\ pc' = "send"
            /\ UNCHANGED <<result, tattempt>>
       ELSE IF ~creds
       THEN /\ pc' = "done"
            /\ result' = AuthFailed
            /\ UNCHANGED tattempt
       ELSE /\ pc' = "refresh"
            /\ tattempt' = 1
            /\ UNCHANGED result
    /\ UNCHANGED <<creds, access_token, token_expiry, last_call_time, now,
                   method, attempt, calls, signals, sleeps, sent,
                   lastReqTime, lastGap, faults>>
    /\ UNCHANGED batchVars

\* one iteration of the refresh loop of get_access_token: a token request
RefreshAttempt(outcome, lat, ei) ==
    /\ pc = "refresh"
    /\ outcome # "granted" => faults < MaxFaults
    /\ faults' = IF outcome = "granted" THEN faults ELSE faults + 1
    /\ CASE outcome = "granted" ->
              /\ access_token' = 1
              /\ now' = now + lat
              /\ token_expiry' = now' + (ei * TicksPerSecond - SAFETY_MARGIN)
              /\ refreshed' = TRUE
              /\ pc' = "send"
              /\ UNCHANGED <<tattempt, result>>
         [] outcome = "rejected" ->
              /\ UNCHANGED <<access_token, token_expiry, refreshed>>
              /\ IF tattempt < TOKEN_ATTEMPTS
                 THEN /\ now' = now + lat + RATE_LIMIT_BACKOFF * tattempt
                      /\ tattempt' = tattempt + 1
                      /\ UNCHANGED <<pc, result>>
                 ELSE /\ now' = now + lat
                      /\ pc' = "done"
                      /\ result' = AuthFailed
                      /\ UNCHANGED tattempt
         [] outcome = "conn_error" ->
              /\ UNCHANGED <<access_token, token_expiry, refreshed>>
              /\ IF tattempt < TOKEN_ATTEMPTS
                 THEN /\ now' = now + lat + RATE_LIMIT_BACKOFF
                      /\ tattempt' = tattempt + 1
                      /\ UNCHANGED <<pc, result>>
                 ELSE /\ now' = now + lat
                      /\ pc' = "done"
                      /\ result' = AuthFailed
                      /\ UNCHANGED tattempt
    /\ UNCHANGED <<creds, last_call_time, method, attempt, calls, signals,
                   sleeps, sent, lastReqTime, lastGap>>
    /\ UNCHANGED batchVars

\* "return {code: 1, message: Unknown method}" before any request is sent
RejectMethod ==
    /\ pc = "send"
    /\ method \notin KnownMethods
    /\ pc' = "done"
    /\ result' = UnknownMethod
    /\ UNCHANGED <<creds, access_token, token_expiry, last_call_time, now,
                   method, attempt, tattempt, calls, signals, sleeps, sent,
                   refreshed, lastReqTime, lastGap, faults>>
    /\ UNCHANGED batchVars

\* requests.get/post/put and the handling of its outcome
SendRequest(sig, lat) ==
    /\ pc = "send"
    /\ method \in KnownMethods
    /\ Kind(sig) # "ok" => faults < MaxFaults
    /\ faults' = IF Kind(sig) = "ok" THEN faults ELSE faults + 1
    /\ sent' = sent + 1
    /\ lastReqTime' = now
    /\ lastGap' = IF lastReqTime < 0 THEN -1 ELSE now - lastReqTime
    /\ signals' = Append(signals, Kind(sig))
    /\ CASE Kind(sig) = "rate_limit" ->
              /\ sleeps' = Append(sleeps, BackoffWait(attempt))
              /\ now' = now + lat + BackoffWait(attempt)
              /\ Continue
              /\ UNCHANGED <<access_token, token_expiry>>
         [] Kind(sig) = "auth_expired" ->
              /\ access_token' = 0
              /\ token_expiry' = 0
              /\ now' = now + lat
              /\ Continue
              /\ UNCHANGED sleeps
         [] Kind(sig) = "ok" ->
              /\ now' = now + lat
              /\ pc' = "done"
              /\ result' = Success
              /\ UNCHANGED <<access_token, token_expiry, attempt, sleeps>>
         [] Kind(sig) = "app_error" ->
              /\ now' = now + lat
              /\ pc' = "done"
              /\ result' = ApplicationError
              /\ UNCHANGED <<access_token, token_expiry, attempt, sleeps>>
         [] Kind(sig) = "timeout" ->
              /\ UNCHANGED <<access_token, token_expiry>>
              /\ IF attempt < MAX_RETRIES
                 THEN /\ sleeps' = Append(sleeps, RATE_LIMIT_BACKOFF)
                      /\ now' = now + REQUEST_TIMEOUT + RATE_LIMIT_BACKOFF
                      /\ Continue
                 ELSE /\ now' = now + REQUEST_TIMEOUT
                      /\ pc' = "done"
                      /\ result' = TimedOut
                      /\ UNCHANGED <<attempt, sleeps>>
         [] Kind(sig) = "exception" ->
              /\ now' = now + lat
              /\ pc' = "done"
              /\ result' = TransportError
              /\ UNCHANGED <<access_token, token_expiry, attempt, sleeps>>
    /\ UNCHANGED <<creds, last_call_time, method, tattempt, calls, refreshed>>
    /\ UNCHANGED batchVars

\* api_call has returned `result` to its caller
Return ==
    /\ pc = "done"
    /\ pc' = "idle"
    /\ UNCHANGED <<creds, access_token, token_expiry, last_call_time, now,
                   method, attempt, tattempt, result, calls, signals, sleeps,
                   sent, refreshed, lastReqTime, lastGap, faults>>
    /\ UNCHANGED batchVars

ConnNext ==
    \/ \E m \in Methods, gap \in CallerGaps : StartCall(m, gap)
    \/ Throttle
    \/ GetHeaders
    \/ \E o \in {"granted", "rejected", "conn_error"},
          lat \in TokenLatency, ei \in ExpiresIn : RefreshAttempt(o, lat, ei)
    \/ RejectMethod
    \/ \E sig \in Signals, lat \in ApiLatency : SendRequest(sig, lat)
    \/ Return

(***************************************************************************)
(* Names.  A string is a sequence of one-character strings.                *)
(***************************************************************************)
Whitespace == {" ", "\n", "\r"}

\* str.lower() on the alphabet of the model
LowerChar(c) ==
    CASE c = "A" -> "a"
      [] c = "B" -> "b"
      [] c = "C" -> "c"
      [] c = "D" -> "d"
      [] OTHER -> c

Lower(s) == [i \in 1..Len(s) |-> LowerChar(s[i])]

RECURSIVE StripLeft(_)
StripLeft(s) ==
    IF s # <<>> /\ Head(s) \in Whitespace THEN StripLeft(Tail(s)) ELSE s

RECURSIVE StripRight(_)
StripRight(s) ==
    IF s # <<>> /\ s[Len(s)] \in Whitespace
    THEN StripRight(SubSeq(s, 1, Len(s) - 1))
    ELSE s

\* str.strip()
Strip(s) == StripRight(StripLeft(s))

\* .replace("\r", "").replace("\n", "")
RemoveCRLF(s) == SelectSeq(s, LAMBDA c : c \notin {"\r", "\n"})

\* name = l["name"].replace("\r", "").replace("\n", "").strip()
CleanName(raw) == Strip(RemoveCRLF(raw))

\* the key under which a pre-loaded contact is filed:
\* c["contact_name"].lower().strip()
ContactKeyUnstripped(contact_name) == Lower(contact_name)

ContactKey(contact_name) == Strip(Lower(contact_name))

(***************************************************************************)
(* Bounds of the batch model                                               *)
(***************************************************************************)
\* batch runs of one specification
MaxRuns == 2

\* records of one batch
MaxBatch == 2

\* contacts on one page of GET /contacts (per_page, 200 in the code)
PageSize == 1

\* ERP customer ledger names as exported: "ab" and a re-spelling of it with
\* embedded line break, capital and trailing blank
RawLedgerNames ==
    { <<"a", "b">>, <<"A", "\n", "b", " ">> }

\* a ledger dict as the front end or the local database hands it over; one
\* without "name" is malformed
LedgerRecords ==
    { [name |-> n, type |-> "customer"] : n \in RawLedgerNames }
        \cup { [name |-> <<"c", "d">>, type |-> "vendor"] }
        \cup { [type |-> "customer"] }

RECURSIVE SeqsUpTo(_, _)
SeqsUpTo(S, n) ==
    IF n = 0 THEN {<<>>}
    ELSE LET shorter == SeqsUpTo(S, n - 1)
         IN shorter \cup {Append(q, x) : q \in shorter, x \in S}

Batches(S) == SeqsUpTo(S, MaxBatch) \ {<<>>}

\* what zoho.api_call hands back to a batch: success, an application error
\* of the target, a typed failure of the client
SyncApiResults == {Success, ApplicationError, RateLimitExceeded}

(***************************************************************************)
(* The target system                                                       *)
(***************************************************************************)
ZohoInit ==
    /\ zohoContacts \in
          {<<>>, <<[name |-> <<"c", "d">>, type |-> "vendor", synced |-> FALSE]>>}
    /\ nposts = 0
    /\ lastPost = <<>>

ZohoIdle ==
    /\ zohoContacts = <<>>
    /\ nposts = 0
    /\ lastPost = <<>>

\* the directory keys of the contacts the target system holds, and of those
\* among them that a batch run created (synced)
ZohoKeys == {ContactKey(zohoContacts[i].name) : i \in DOMAIN zohoContacts}

SyncedKeys ==
    {ContactKey(zohoContacts[i].name) :
        i \in {j \in DOMAIN zohoContacts : zohoContacts[j].synced}}

\* the parties (directory key and contact type) a batch run created
SyncedParties ==
    {[key |-> ContactKey(zohoContacts[i].name), type |-> zohoContacts[i].type] :
        i \in {j \in DOMAIN zohoContacts : zohoContacts[j].synced}}

\* GET /contacts?contact_type=ctype&page=p&per_page=PageSize
ContactsOfType(ctype) == SelectSeq(zohoContacts, LAMBDA c : c.type = ctype)

ContactsPage(ctype, p) ==
    LET all == ContactsOfType(ctype)
        lo == (p - 1) * PageSize + 1
        hi == IF p * PageSize < Len(all) THEN p * PageSize ELSE Len(all)
    IN [contacts |-> SubSeq(all, lo, hi), has_more_page |-> p * PageSize < Len(all)]

(***************************************************************************)
(* sync_ledgers_to_zoho                                                    *)
(***************************************************************************)
NoStats == [created |-> 0, updated |-> 0, failed |-> 0, skipped |-> 0]

LedgerIdle ==
    /\ lpc = "idle"
    /\ lruns = 0
    /\ ledgers_to_sync = <<>>
    /\ lidx = 1
    /\ types_to_preload = <<>>
    /\ page = 1
    /\ existing_contacts = {}
    /\ stats = NoStats
    /\ failed_names = <<>>
    /\ loutcomes = <<>>

\* the records the run will sync: "if contact_type_filter: [l for l in
\* selected_ledgers if l.get('type') == contact_type_filter]"
FilterLedgers(selected, filter) ==
    IF filter # "all"
    THEN SelectSeq(selected, LAMBDA l : l.type = filter)
    ELSE selected

TypesToPreload(filter) ==
    IF filter # "all" THEN <<filter>> ELSE <<"customer", "vendor">>

\* the loop variable after record i of n: the for loop goes on to the next
\* record whatever the outcome of record i
NextRecordAbort(i, n, failed) == IF failed THEN n + 1 ELSE i + 1

NextRecord(i, n, failed) == i + 1

\* "if name_key in existing_contacts"
AlreadyExistsNever(key, directory) == FALSE

AlreadyExists(key, directory) == key \in directory

\* position after the pre-load or after a record
LoopOrReturn(i, n) == IF i > n THEN "returned" ELSE "loop"

\* a caller invokes sync_ledgers_to_zoho(selected_ledgers, contact_type_filter)
LedgerStartRun(selected, filter) ==
    /\ lpc = "idle"
    /\ lruns < MaxRuns
    /\ lruns' = lruns + 1
    /\ ledgers_to_sync' = FilterLedgers(selected, filter)
    /\ types_to_preload' = TypesToPreload(filter)
    /\ page' = 1
    /\ existing_contacts' = {}
    /\ stats' = NoStats
    /\ failed_names' = <<>>
    /\ loutcomes' = <<>>
    /\ lidx' = 1
    /\ lpc' = "preload"
    /\ UNCHANGED <<zohoVars, connVars, tallyVars, extVars, docVars>>

\* one GET /contacts of the bulk pre-load
LedgerPreloadPage(res) ==
    /\ lpc = "preload"
    /\ LET ctype == Head(types_to_preload)
           got == ContactsPage(ctype, page)
           more == res.code = 0 /\ got.has_more_page
           rest == IF more THEN types_to_preload ELSE Tail(types_to_preload)
       IN /\ existing_contacts' =
                IF res.code # 0 THEN existing_contacts
                ELSE existing_contacts \cup
                       {ContactKey(got.contacts[i].name) : i \in DOMAIN got.contacts}
          /\ page' = IF more THEN page + 1 ELSE 1
          /\ types_to_preload' = rest
          /\ lpc' = IF rest = <<>>
                    THEN LoopOrReturn(1, Len(ledgers_to_sync))
                    ELSE "preload"
    /\ UNCHANGED <<zohoVars, connVars, tallyVars, extVars, docVars, lruns, ledgers_to_sync, lidx,
                   stats, failed_names, loutcomes>>

\* one iteration of the main sync loop
LedgerProcess(res) ==
    /\ lpc = "loop"
    /\ LET l == ledgers_to_sync[lidx]
           n == Len(ledgers_to_sync)
       IN IF "name" \notin DOMAIN l
          THEN \* l["name"] raises KeyError, which nothing catches
               /\ res = Success
               /\ lpc' = "raised"
               /\ UNCHANGED <<zohoVars, lidx, existing_contacts, stats,
                              failed_names, loutcomes>>
          ELSE LET name == CleanName(l.name)
                   name_key == Lower(name)
                   contact_type == IF l.type = "vendor" THEN "vendor" ELSE "customer"
               IN IF AlreadyExists(name_key, existing_contacts)
                  THEN /\ res = Success
                       /\ stats' = [stats EXCEPT !.skipped = @ + 1]
                       /\ loutcomes' = Append(loutcomes, [rec |-> lidx, action |-> "skipped"])
                       /\ lidx' = NextRecord(lidx, n, FALSE)
                       /\ lpc' = LoopOrReturn(lidx', n)
                       /\ UNCHANGED <<zohoVars, existing_contacts, failed_names>>
                  ELSE /\ nposts' = nposts + 1
                       /\ lastPost' = [key |-> name_key, type |-> contact_type]
                       /\ IF res.code = 0
                          THEN /\ zohoContacts' = Append(zohoContacts,
                                      [name |-> name, type |-> contact_type,
                                       synced |-> TRUE])
                               /\ stats' = [stats EXCEPT !.created = @ + 1]
                               /\ existing_contacts' = existing_contacts \cup {name_key}
                               /\ loutcomes' = Append(loutcomes,
                                      [rec |-> lidx, action |-> "created"])
                               /\ UNCHANGED failed_names
                          ELSE /\ stats' = [stats EXCEPT !.failed = @ + 1]
                               /\ failed_names' = Append(failed_names,
                                      [name |-> name, reason |-> res.message])
                               /\ loutcomes' = Append(loutcomes,
                                      [rec |-> lidx, action |-> "failed"])
                               /\ UNCHANGED <<zohoContacts, existing_contacts>>
                       /\ lidx' = NextRecord(lidx, n, res.code # 0)
                       /\ lpc' = LoopOrReturn(lidx', n)
    /\ UNCHANGED <<connVars, tallyVars, extVars, docVars, lruns, ledgers_to_sync, types_to_preload,
                   page>>

\* the caller has the result (or the exception); the locals of the run are
\* gone
LedgerReturn ==
    /\ lpc \in {"returned", "raised"}
    /\ lpc' = "idle"
    /\ ledgers_to_sync' = <<>>
    /\ lidx' = 1
    /\ types_to_preload' = <<>>
    /\ page' = 1
    /\ existing_contacts' = {}
    /\ stats' = NoStats
    /\ failed_names' = <<>>
    /\ loutcomes' = <<>>
    /\ UNCHANGED <<zohoVars, connVars, tallyVars, extVars, docVars, lruns>>

LedgerNext ==
    \/ \E sel \in Batches(LedgerRecords), f \in {"all", "customer", "vendor"} :
          LedgerStartRun(sel, f)
    \/ \E res \in SyncApiResults : LedgerPreloadPage(res)
    \/ \E res \in SyncApiResults : LedgerProcess(res)
    \/ LedgerReturn

(***************************************************************************)
(* Part III.  Directories of the document batches                          *)
(***************************************************************************)
\* "if best_match and best_score >= 75" (bills)
BILLS_ACCEPT_SCORE == 75

\* "if match_score < 80" (sales orders, purchase orders)
SALES_MIN_SCORE == 80

\* pages of GET /contacts answered before the listing fails; -1: all of them
FetchLimits == {-1, 0, 1}

\* a contact as the directories hold it; None has contact_id 0
NoContact == [contact_id |-> 0, contact_type |-> "none", contact_name |-> <<>>]

ContactOf(i) ==
    [contact_id |-> i, contact_type |-> zohoContacts[i].type,
     contact_name |-> zohoContacts[i].name]

\* a dict, as the sequence of its items in insertion order
Keys(map) == {map[i].key : i \in DOMAIN map}

Lookup(map, k) == map[CHOOSE i \in DOMAIN map : map[i].key = k].contact

\* map[k] = c
DictSet(map, k, c) ==
    IF k \in Keys(map)
    THEN [i \in DOMAIN map |->
             IF map[i].key = k THEN [key |-> k, contact |-> c] ELSE map[i]]
    ELSE Append(map, [key |-> k, contact |-> c])

\* contacts listed by the pages that were answered
ContactsRead(lim) ==
    IF lim = -1 \/ lim * PageSize > Len(zohoContacts)
    THEN Len(zohoContacts)
    ELSE lim * PageSize

\* the loop "for c in contacts: ... all[c["contact_name"]...] = c" over the
\* first n contacts of the listing, keeping the given contact types
RECURSIVE BuildContactMap(_, _, _)
BuildContactMap(n, strip, types) ==
    IF n = 0 THEN <<>>
    ELSE LET m == BuildContactMap(n - 1, strip, types)
             k == IF strip THEN ContactKey(zohoContacts[n].name)
                  ELSE ContactKeyUnstripped(zohoContacts[n].name)
         IN IF zohoContacts[n].type \in types
            THEN DictSet(m, k, ContactOf(n))
            ELSE m

\* journel_backend.get_zoho_contacts: the remote listing
journal_fetch_contacts(lim) ==
    BuildContactMap(ContactsRead(lim), TRUE, {"customer", "vendor"})

\* journel_backend.get_zoho_contacts(token): the cache unless it is empty
\* (use_cache=True, force_refresh=False)
journal_get_zoho_contacts(lim) ==
    IF contactCache # <<>> THEN contactCache ELSE journal_fetch_contacts(lim)

\* bills_backend.get_zoho_contacts: vendors, keyed by contact_name.lower()
bills_get_zoho_contacts(lim) ==
    BuildContactMap(ContactsRead(lim), FALSE, {"vendor"})

\* sale_backend.get_zoho_contacts: customers, keyed by contact_name.lower()
sales_get_zoho_contacts(lim) ==
    BuildContactMap(ContactsRead(lim), FALSE, {"customer"})

(***************************************************************************)
(* fuzz.ratio of fuzzywuzzy: int(round(100 * 2M/T)), M the matched         *)
(* characters and T the total length; 100 for equal strings, 0 when one is *)
(* empty.  M is the longest common subsequence, with which the matching    *)
(* blocks of difflib coincide on the names of this model.                  *)
(***************************************************************************)
Max(a, b) == IF a >= b THEN a ELSE b

RECURSIVE LCS(_, _)
LCS(a, b) ==
    IF a = <<>> \/ b = <<>> THEN 0
    ELSE IF Head(a) = Head(b) THEN 1 + LCS(Tail(a), Tail(b))
    ELSE Max(LCS(Tail(a), b), LCS(a, Tail(b)))

\* int(round(num / den)), round half to even
RoundHalfEven(num, den) ==
    LET q == num \div den
        r == num % den
    IN IF 2 * r < den THEN q
       ELSE IF 2 * r > den THEN q + 1
       ELSE IF q % 2 = 0 THEN q ELSE q + 1

Ratio(s1, s2) ==
    IF s1 = s2 THEN 100
    ELSE IF s1 = <<>> \/ s2 = <<>> THEN 0
    ELSE RoundHalfEven(200 * LCS(s1, s2), Len(s1) + Len(s2))

\* "for existing_name, contact in contact_map.items(): score = fuzz.ratio(..);
\*  if score > best_score: ..." over the first n items; idx 0 is no match
RECURSIVE BestMatch(_, _, _)
BestMatch(key, map, n) ==
    IF n = 0 THEN [score |-> 0, idx |-> 0]
    ELSE LET prev == BestMatch(key, map, n - 1)
             score == Ratio(key, map[n].key)
         IN IF score > prev.score THEN [score |-> score, idx |-> n] ELSE prev

(***************************************************************************)
(* The resolvers                                                           *)
(***************************************************************************)
\* "if best_match and best_score >= 75"
BillsAcceptAny(best) == best.idx # 0

BillsAccept(best) == best.idx # 0 /\ best.score >= BILLS_ACCEPT_SCORE

\* bills_backend.find_or_create_contact: the contact (or None) and the
\* contact_map it leaves
bills_find_or_create_contact(map, contact_name) ==
    LET contact_key == Strip(Lower(contact_name))
        best == BestMatch(contact_key, map, Len(map))
    IN IF contact_key \in Keys(map)
       THEN [contact |-> Lookup(map, contact_key), score |-> 100, map |-> map]
       ELSE IF BillsAccept(best)
       THEN [contact |-> map[best.idx].contact, score |-> best.score,
             map |-> DictSet(map, contact_key, map[best.idx].contact)]
       ELSE [contact |-> NoContact, score |-> best.score, map |-> map]

\* sale_backend.find_customer_in_zoho: (contact or None, score)
find_customer_in_zoho(customer_name, map) ==
    LET customer_lower == Lower(customer_name)
        best == BestMatch(customer_lower, map, Len(map))
    IN IF customer_lower \in Keys(map)
       THEN [contact |-> Lookup(map, customer_lower), score |-> 100]
       ELSE [contact |-> IF best.idx = 0 THEN NoContact
                         ELSE map[best.idx].contact,
             score |-> best.score]

\* "if match_score == 100: ... else: if match_score < 80: return failure"
LowConfidenceNever(match_score) == FALSE

LowConfidence(match_score) ==
    match_score # 100 /\ match_score < SALES_MIN_SCORE

\* "contact_lower in existing_name or existing_name in contact_lower"
IsSubstring(a, b) ==
    \E i \in 0..(Len(b) - Len(a)) : SubSeq(b, i + 1, i + Len(a)) = a

SubstringMatches(key, map) ==
    {i \in DOMAIN map : IsSubstring(key, map[i].key) \/ IsSubstring(map[i].key, key)}

\* journel_backend.find_or_create_contact up to the create: the contact of
\* the exact key, else of the first item whose key contains or is contained
\* in the name, else None
journal_find_contact(map, contact_name) ==
    LET contact_lower == Strip(Lower(contact_name))
        fuzzy == SubstringMatches(contact_lower, map)
    IN IF contact_lower \in Keys(map) THEN Lookup(map, contact_lower)
       ELSE IF fuzzy # {}
       THEN map[CHOOSE i \in fuzzy : \A j \in fuzzy : i <= j].contact
       ELSE NoContact

(***************************************************************************)
(* The document batches                                                    *)
(***************************************************************************)
\* party names on the documents: a name of the directory, a re-spelling of
\* it (capital, trailing blank), a name one letter off, a name two off
DocPartyNames ==
    { <<"a", "b", "c", "d">>, <<"A", "b", "c", "d", " ">>,
      <<"a", "b", "c", "e">>, <<"a", "b", "x", "y">> }

\* bills; the one without "vendor_name" is malformed
BillRecords ==
    { [bill_number |-> 1, vendor_name |-> n] : n \in DocPartyNames }
        \cup { [bill_number |-> 1] }

SalesOrderRecords ==
    { [sales_order_number |-> 1, customer_name |-> n] : n \in DocPartyNames }
        \cup { [sales_order_number |-> 1] }

PurchaseOrderRecords ==
    { [purchase_order_number |-> 1, vendor_name |-> n] : n \in DocPartyNames }
        \cup { [purchase_order_number |-> 1] }

\* journals: line_items of (ledger_name, ledger_type); "s" is an account of
\* the target's chart, "q" is not, "a" is contained in the party name "ab";
\* the journal without "line_items" is malformed
JournalRecords ==
    { [journal_number |-> 1, line_items |->
          << [ledger_name |-> <<"a", "b">>, ledger_type |-> "customer"],
             [ledger_name |-> <<"s">>, ledger_type |-> "other"] >>],
      [journal_number |-> 1, line_items |->
          << [ledger_name |-> <<"a">>, ledger_type |-> "customer"],
             [ledger_name |-> <<"q">>, ledger_type |-> "other"] >>],
      [journal_number |-> 1] }

\* keys of account_map (get_zoho_accounts) besides "accounts payable" and
\* "accounts receivable", which the chart of the model has
ZohoAccounts == { <<"s">> }

\* outcome of the request that posts a document or creates a contact
DocApiResults == {"ok", "app_error", "exception"}

NoDocStats == [created |-> 0, failed |-> 0, errors |-> <<>>]

DocIdle ==
    /\ dpc = "idle"
    /\ druns = 0
    /\ flow = "none"
    /\ docs_to_sync = <<>>
    /\ didx = 1
    /\ jline = 1
    /\ contact_map = <<>>
    /\ contactCache = <<>>
    /\ dstats = NoDocStats
    /\ docPosts = 0
    /\ doutcomes = <<>>

\* the organizations the document batches run against
ZohoInitJournal ==
    /\ zohoContacts \in
          {<<>>, <<[name |-> <<"a", "b">>, type |-> "customer", synced |-> FALSE]>>}
    /\ nposts = 0
    /\ lastPost = <<>>

ZohoInitDocs ==
    /\ zohoContacts \in
          { <<>>,
            << [name |-> <<"a", "b", "c", "d">>, type |-> "vendor", synced |-> FALSE],
               [name |-> <<"a", "b", "c", "f">>, type |-> "vendor", synced |-> FALSE],
               [name |-> <<"a", "b", "c", "d">>, type |-> "customer", synced |-> FALSE] >> }
    /\ nposts = 0
    /\ lastPost = <<>>

\* sync_*_to_zoho is entered: token, then the directory
DocStartRun(f, selected, tok, map) ==
    /\ dpc = "idle"
    /\ druns < MaxRuns
    /\ druns' = druns + 1
    /\ flow' = f
    /\ docs_to_sync' = selected
    /\ didx' = 1
    /\ jline' = 1
    /\ dstats' = NoDocStats
    /\ doutcomes' = <<>>
    /\ IF tok
       THEN /\ contact_map' = map
            /\ dpc' = "loop"
       ELSE \* "if not token: return {"status": "error", ...}"
            /\ contact_map' = <<>>
            /\ dpc' = "error"
    /\ UNCHANGED <<connVars, tallyVars, extVars, zohoVars, ledgerVars, docPosts>>

\* the loop goes on to the next document, with the result of this one
\* no score is put into the message
NoScore == -1

\* an item of stats["errors"]: the number of the record, the party, and the
\* error message as its text and the values formatted into it; the name of
\* a candidate is formatted into none of the messages
ErrorEntry(number, party, text, score) ==
    [number |-> number, party |-> party,
     error |-> [text |-> text, name |-> party, score |-> score,
                candidate |-> <<>>]]

DocDone(success, posted, errors) ==
    /\ dstats' = IF success
                 THEN [dstats EXCEPT !.created = @ + 1]
                 ELSE [dstats EXCEPT !.failed = @ + 1, !.errors = @ \o errors]
    /\ doutcomes' = Append(doutcomes,
                       [rec |-> didx, posted |-> posted,
                        action |-> IF success THEN "created" ELSE "failed"])
    /\ didx' = didx + 1
    /\ jline' = 1
    /\ dpc' = IF didx' > Len(docs_to_sync) THEN "returned" ELSE "loop"

\* an exception leaves the loop: "except Exception as e: return
\* {"status": "error", "message": str(e)}"
DocRaise ==
    /\ dpc' = "error"
    /\ UNCHANGED <<didx, jline, dstats, doutcomes>>

\* the caller has the result; the locals of the run are gone
DocReturn ==
    /\ dpc \in {"returned", "error"}
    /\ dpc' = "idle"
    /\ flow' = "none"
    /\ docs_to_sync' = <<>>
    /\ didx' = 1
    /\ jline' = 1
    /\ contact_map' = <<>>
    /\ dstats' = NoDocStats
    /\ doutcomes' = <<>>
    /\ UNCHANGED <<connVars, tallyVars, extVars, zohoVars, ledgerVars, druns, contactCache, docPosts>>

(***************************************************************************)
(* sync_journals_to_zoho                                                   *)
(***************************************************************************)
JournalStartRun(selected, tok, lim) ==
    /\ DocStartRun("journals", selected, tok, journal_get_zoho_contacts(lim))
    /\ contactCache' = IF tok THEN journal_get_zoho_contacts(lim) ELSE contactCache

NextLine ==
    /\ jline' = jline + 1
    /\ UNCHANGED <<didx, dstats, doutcomes, dpc>>

\* one iteration of "for item in journal_data["line_items"]"
JournalLine(cres) ==
    /\ dpc = "loop"
    /\ flow = "journals"
    /\ LET journal == docs_to_sync[didx]
       IN IF "line_items" \notin DOMAIN journal
          THEN /\ cres = "ok"
               /\ DocRaise
               /\ UNCHANGED <<zohoVars, contact_map>>
          ELSE /\ jline <= Len(journal.line_items)
               /\ LET item == journal.line_items[jline]
                      contact_lower == Strip(Lower(item.ledger_name))
                      found == journal_find_contact(contact_map, item.ledger_name)
                  IN IF item.ledger_type \notin {"vendor", "customer"}
                     THEN /\ cres = "ok"
                          /\ UNCHANGED <<zohoVars, contact_map>>
                          /\ IF contact_lower \in ZohoAccounts
                             THEN NextLine
                             ELSE DocDone(FALSE, FALSE, <<>>)
                     ELSE IF found # NoContact
                     THEN /\ cres = "ok"
                          /\ UNCHANGED <<zohoVars, contact_map>>
                          /\ NextLine
                     ELSE \* create_contact_in_zoho
                          /\ nposts' = nposts + 1
                          /\ lastPost' = [key |-> contact_lower,
                                          type |-> item.ledger_type]
                          /\ IF cres = "ok"
                             THEN /\ zohoContacts' = Append(zohoContacts,
                                        [name |-> item.ledger_name,
                                         type |-> item.ledger_type,
                                         synced |-> TRUE])
                                  /\ contact_map' = DictSet(contact_map, contact_lower,
                                        [contact_id |-> Len(zohoContacts) + 1,
                                         contact_type |-> item.ledger_type,
                                         contact_name |-> item.ledger_name])
                                  /\ NextLine
                             ELSE /\ UNCHANGED <<zohoContacts, contact_map>>
                                  /\ DocDone(FALSE, FALSE, <<>>)
    /\ UNCHANGED <<connVars, tallyVars, extVars, ledgerVars, druns, flow, docs_to_sync,
                   contactCache, docPosts>>

\* requests.post(f"{BASE_URL}/journals", ...), outside any try of
\* create_zoho_journal
JournalPost(res) ==
    /\ dpc = "loop"
    /\ flow = "journals"
    /\ "line_items" \in DOMAIN docs_to_sync[didx]
    /\ jline > Len(docs_to_sync[didx].line_items)
    /\ docPosts' = docPosts + 1
    /\ IF res = "exception" THEN DocRaise ELSE DocDone(res = "ok", TRUE, <<>>)
    /\ UNCHANGED <<connVars, tallyVars, extVars, zohoVars, ledgerVars, druns, flow, docs_to_sync,
                   contact_map, contactCache>>

JournalNext ==
    \/ \E sel \in Batches(JournalRecords), tok \in BOOLEAN, lim \in FetchLimits :
          JournalStartRun(sel, tok, lim)
    \/ \E cres \in {"ok", "failed"} : JournalLine(cres)
    \/ \E res \in DocApiResults : JournalPost(res)
    \/ DocReturn

(***************************************************************************)
(* sync_bills_to_zoho                                                      *)
(***************************************************************************)
BillsStartRun(selected, tok, lim) ==
    /\ DocStartRun("bills", selected, tok, bills_get_zoho_contacts(lim))
    /\ UNCHANGED contactCache

\* one iteration of "for bill in bills_to_sync": create_zoho_bill and the
\* bookkeeping of its result
BillProcess(res) ==
    /\ dpc = "loop"
    /\ flow = "bills"
    /\ LET bill == docs_to_sync[didx]
       IN IF "vendor_name" \notin DOMAIN bill
          THEN \* KeyError, caught around the whole loop
               /\ res = "ok"
               /\ DocRaise
               /\ UNCHANGED <<contact_map, docPosts>>
          ELSE LET r == bills_find_or_create_contact(contact_map, bill.vendor_name)
               IN /\ contact_map' = r.map
                  /\ IF r.contact = NoContact
                     THEN \* "if not vendor_info: return {"success": False, ..}"
                          /\ res = "ok"
                          /\ UNCHANGED docPosts
                          /\ DocDone(FALSE, FALSE,
                                <<ErrorEntry(bill.bill_number, bill.vendor_name,
                                     "Failed to find or create vendor: {name}",
                                     NoScore)>>)
                     ELSE \* requests.post(f"{BASE_URL}/bills", ...) in try
                          /\ docPosts' = docPosts + 1
                          /\ DocDone(res = "ok", TRUE,
                                <<ErrorEntry(bill.bill_number, bill.vendor_name,
                                             res, NoScore)>>)
    /\ UNCHANGED <<connVars, tallyVars, extVars, zohoVars, ledgerVars, druns, flow, docs_to_sync,
                   contactCache>>

(***************************************************************************)
(* sync_sales_orders_to_zoho, and sync_purchase_orders_to_zoho, which is   *)
(* the same code over vendors                                              *)
(***************************************************************************)
OrderFlows == {"sales_orders", "purchase_orders"}

OrderRecords(f) ==
    IF f = "sales_orders" THEN SalesOrderRecords ELSE PurchaseOrderRecords

\* so_data["customer_name"], so_data["vendor_name"]
OrderHasParty(f, so_data) ==
    IF f = "sales_orders"
    THEN "customer_name" \in DOMAIN so_data
    ELSE "vendor_name" \in DOMAIN so_data

OrderParty(f, so_data) ==
    IF f = "sales_orders" THEN so_data.customer_name ELSE so_data.vendor_name

OrderStartRun(f, selected, tok, lim) ==
    /\ DocStartRun(f, selected, tok,
          IF f = "sales_orders" THEN sales_get_zoho_contacts(lim)
          ELSE bills_get_zoho_contacts(lim))
    /\ UNCHANGED contactCache

\* one iteration of "for so in orders_to_sync": create_zoho_sales_order
\* (create_zoho_purchase_order) and the bookkeeping of its result
\* so['sales_order_number'], po['purchase_order_number']
OrderNumber(f, so_data) ==
    IF f = "sales_orders" THEN so_data.sales_order_number
    ELSE so_data.purchase_order_number

OrderProcess(res) ==
    /\ dpc = "loop"
    /\ flow \in OrderFlows
    /\ LET so_data == docs_to_sync[didx]
       IN IF ~OrderHasParty(flow, so_data)
          THEN /\ res = "ok"
               /\ DocRaise
               /\ UNCHANGED docPosts
          ELSE LET name == OrderParty(flow, so_data)
                   r == find_customer_in_zoho(name, contact_map)
               IN IF r.contact = NoContact
                  THEN \* "if not customer_info"
                       /\ res = "ok"
                       /\ UNCHANGED docPosts
                       /\ DocDone(FALSE, FALSE,
                             <<ErrorEntry(OrderNumber(flow, so_data), name,
                                  "'{name}' not found in Zoho Books", NoScore)>>)
                  ELSE IF LowConfidence(r.score)
                  THEN /\ res = "ok"
                       /\ UNCHANGED docPosts
                       /\ DocDone(FALSE, FALSE,
                             <<ErrorEntry(OrderNumber(flow, so_data), name,
                                  "Low confidence match for '{name}' (Score: {score}%)",
                                  r.score)>>)
                  ELSE \* requests.post(f"{BASE_URL}/salesorders", ...) in try
                       /\ docPosts' = docPosts + 1
                       /\ DocDone(res = "ok", TRUE,
                             <<ErrorEntry(OrderNumber(flow, so_data), name, res,
                                          NoScore)>>)
    /\ UNCHANGED <<connVars, tallyVars, extVars, zohoVars, ledgerVars, druns, flow, docs_to_sync,
                   contact_map, contactCache>>

DocNext ==
    \/ \E sel \in Batches(BillRecords), tok \in BOOLEAN, lim \in FetchLimits :
          BillsStartRun(sel, tok, lim)
    \/ \E res \in DocApiResults : BillProcess(res)
    \/ \E f \in OrderFlows, tok \in BOOLEAN, lim \in FetchLimits :
          \E sel \in Batches(OrderRecords(f)) : OrderStartRun(f, sel, tok, lim)
    \/ \E res \in DocApiResults : OrderProcess(res)
    \/ DocReturn

(***************************************************************************)
(* Part IV.  Group hierarchy and ledger classification                     *)
(***************************************************************************)
\* group records of one hierarchy
MaxGroups == 3

\* calls of get_ledger_map_from_tally
MaxGets == 2

SundryDebtors == "Sundry Debtors"

SundryCreditors == "Sundry Creditors"

GroupNames == {SundryDebtors, SundryCreditors, "A", "B", "C"}

\* group records (name, parent) of the ERP master data; a name may occur in
\* more than one record
GroupRecords ==
    { [name |-> "A", parent |-> SundryDebtors],
      [name |-> "A", parent |-> SundryCreditors],
      [name |-> "A", parent |-> "B"],
      [name |-> "B", parent |-> "A"],
      [name |-> "C", parent |-> SundryDebtors],
      [name |-> SundryDebtors, parent |-> "A"] }

GroupLists == SeqsUpTo(GroupRecords, MaxGroups)

\* hierarchies by name: root with A and C below it and B below A; the same
\* with A and B below each other; A below both roots; no record names a root
ExampleGroups ==
    << [name |-> "A", parent |-> SundryDebtors], [name |-> "B", parent |-> "A"],
       [name |-> "C", parent |-> SundryDebtors] >>

CyclicGroups ==
    << [name |-> "A", parent |-> SundryDebtors], [name |-> "B", parent |-> "A"],
       [name |-> "A", parent |-> "B"] >>

SharedGroups ==
    << [name |-> "A", parent |-> SundryDebtors],
       [name |-> "A", parent |-> SundryCreditors] >>

RootlessGroups == << [name |-> "B", parent |-> "A"] >>

NamedHierarchies == {ExampleGroups, CyclicGroups, SharedGroups, RootlessGroups}

\* one ledger under each group name
TallyLedgers ==
    << [name |-> "l1", parent |-> SundryDebtors],
       [name |-> "l2", parent |-> SundryCreditors],
       [name |-> "l3", parent |-> "A"],
       [name |-> "l4", parent |-> "B"],
       [name |-> "l5", parent |-> "C"] >>

LedgerLists == {TallyLedgers, SubSeq(TallyLedgers, 3, 4)}

Range(f) == {f[i] : i \in DOMAIN f}

\* build_group_hierarchy: children_map[g["parent"]].append(g["name"])
build_group_hierarchy(gs) ==
    [p \in GroupNames |->
        LET below == SelectSeq(gs, LAMBDA g : g.parent = p)
        IN [i \in 1..Len(below) |-> below[i].name]]

\* children_map.get(group_name, [])
Children(gs, group_name) == build_group_hierarchy(gs)[group_name]

\* "if group_name in visited"
InVisitedNever(group_name, seen) == FALSE

InVisited(group_name, seen) == group_name \in seen

\* what a call has collected before it recurses: the children
\* (descendants.extend(children), ledgers_backend) or the group itself
\* (results = {group_name}, journel_backend); the list of ledgers_backend is
\* kept as the set that sd.update() makes of it
CollectedFirstChild(gs, f, group_name) ==
    IF f = "analyze_ledgers"
    THEN IF Children(gs, group_name) = <<>> THEN {}
         ELSE {Children(gs, group_name)[1]}
    ELSE {group_name}

Collected(gs, f, group_name) ==
    IF f = "analyze_ledgers" THEN Range(Children(gs, group_name))
    ELSE {group_name}

\* the top-level call get_all_descendants(r): visited is a new set
ClosureStart(gs, f, r) ==
    /\ root' = r
    /\ visited' = {r}
    /\ gstack' = <<[group |-> r, i |-> 1, acc |-> Collected(gs, f, r)]>>
    /\ descents' = 1
    /\ expanded' = <<r>>

Top == gstack[Len(gstack)]

\* "for child in children: ....extend(get_all_descendants(child, .., visited))":
\* the call for the next child, which returns at once when child is visited
ClosureCall ==
    /\ tpc = "closure"
    /\ Top.i <= Len(Children(groups, Top.group))
    /\ LET child == Children(groups, Top.group)[Top.i]
       IN /\ descents' = descents + 1
          /\ IF InVisited(child, visited)
             THEN /\ gstack' = [gstack EXCEPT ![Len(gstack)].i = @ + 1]
                  /\ UNCHANGED <<visited, expanded>>
             ELSE /\ visited' = visited \cup {child}
                  /\ expanded' = Append(expanded, child)
                  /\ gstack' = Append(gstack,
                        [group |-> child, i |-> 1,
                         acc |-> Collected(groups, impl, child)])
    /\ UNCHANGED <<tpc, impl, groups, ledgers, root, sd, sc, tresult,
                   database_manager, db, ledgerCache, gets, loaded, forced>>
    /\ UNCHANGED <<connVars, zohoVars, ledgerVars, docVars, extVars>>

\* a call below the top-level one returns what it collected to its caller
ClosureReturn ==
    /\ tpc = "closure"
    /\ Len(gstack) > 1
    /\ Top.i > Len(Children(groups, Top.group))
    /\ LET caller == gstack[Len(gstack) - 1]
       IN gstack' = [SubSeq(gstack, 1, Len(gstack) - 1)
                       EXCEPT ![Len(gstack) - 1] =
                          [caller EXCEPT !.i = @ + 1, !.acc = @ \cup Top.acc]]
    /\ UNCHANGED <<tpc, impl, groups, ledgers, root, visited, descents, expanded,
                   sd, sc, tresult, database_manager, db, ledgerCache, gets,
                   loaded, forced>>
    /\ UNCHANGED <<connVars, zohoVars, ledgerVars, docVars, extVars>>

\* the set the caller keeps: sd = {"Sundry Debtors"}; sd.update(..) in
\* ledgers_backend, the returned set itself in journel_backend
ClosureSetBare(f, r, acc) == acc

ClosureSet(f, r, acc) ==
    IF f = "analyze_ledgers" THEN {r} \cup acc ELSE acc

\* the top-level call is about to return
RootReturns ==
    /\ tpc = "closure"
    /\ Len(gstack) = 1
    /\ Top.i > Len(Children(groups, Top.group))

(***************************************************************************)
(* analyze_ledgers (ledgers_backend)                                       *)
(***************************************************************************)
\* "if parent in sd: customer / elif parent in sc: vendor / else: other"
LedgerTypeVendorFirst(parent, debtors, creditors) ==
    IF parent \in creditors THEN "vendor"
    ELSE IF parent \in debtors THEN "customer"
    ELSE "other"

LedgerType(parent, debtors, creditors) ==
    IF parent \in debtors THEN "customer"
    ELSE IF parent \in creditors THEN "vendor"
    ELSE "other"

\* database_manager.insert_or_update_ledger for every row
Upsert(table, rows) ==
    {r \in table : \A n \in rows : n.name # r.name} \cup rows

TallyIdle ==
    /\ tpc = "idle"
    /\ impl = "none"
    /\ groups = <<>>
    /\ ledgers = <<>>
    /\ root = "none"
    /\ gstack = <<>>
    /\ visited = {}
    /\ descents = 0
    /\ expanded = <<>>
    /\ sd = {}
    /\ sc = {}
    /\ tresult = {}
    /\ database_manager = FALSE
    /\ db = {}
    /\ ledgerCache = {}
    /\ gets = 0
    /\ loaded = FALSE
    /\ forced = FALSE

\* a caller invokes analyze_ledgers(ledgers, groups)
AnalyzeStart(ls, gs, dbm) ==
    /\ tpc = "idle"
    /\ impl = "none"
    /\ impl' = "analyze_ledgers"
    /\ groups' = gs
    /\ ledgers' = ls
    /\ database_manager' = dbm
    /\ ClosureStart(gs, "analyze_ledgers", SundryDebtors)
    /\ tpc' = "closure"
    /\ UNCHANGED <<sd, sc, tresult, db, ledgerCache, gets, loaded, forced>>
    /\ UNCHANGED <<connVars, zohoVars, ledgerVars, docVars, extVars>>

\* sd.update(get_all_descendants("Sundry Debtors", ..)), then the same for
\* "Sundry Creditors"
AnalyzeRootReturn ==
    /\ RootReturns
    /\ impl = "analyze_ledgers"
    /\ IF root = SundryDebtors
       THEN /\ sd' = ClosureSet(impl, root, Top.acc)
            /\ ClosureStart(groups, impl, SundryCreditors)
            /\ UNCHANGED <<sc, tpc>>
       ELSE /\ sc' = ClosureSet(impl, root, Top.acc)
            /\ tpc' = "classify"
            /\ gstack' = <<>>
            /\ UNCHANGED <<sd, root, visited, descents, expanded>>
    /\ UNCHANGED <<impl, groups, ledgers, tresult, database_manager, db,
                   ledgerCache, gets, loaded, forced>>
    /\ UNCHANGED <<connVars, zohoVars, ledgerVars, docVars, extVars>>

\* "for ledger in ledgers: ..." and the return
AnalyzeClassify ==
    /\ tpc = "classify"
    /\ impl = "analyze_ledgers"
    /\ LET typed == [i \in DOMAIN ledgers |->
                       [name |-> ledgers[i].name, parent |-> ledgers[i].parent,
                        type |-> LedgerType(ledgers[i].parent, sd, sc)]]
       IN /\ ledgers' = typed
          /\ tresult' =
                [ledgers |-> typed,
                 sundry_debtors |-> SelectSeq(typed, LAMBDA l : l.type = "customer"),
                 sundry_creditors |-> SelectSeq(typed, LAMBDA l : l.type = "vendor"),
                 other_ledgers |-> SelectSeq(typed, LAMBDA l : l.type = "other")]
          /\ db' = IF database_manager THEN Upsert(db, Range(typed)) ELSE db
    /\ tpc' = "done"
    /\ UNCHANGED <<impl, groups, root, gstack, visited, descents, expanded, sd, sc,
                   database_manager, ledgerCache, gets, loaded, forced>>
    /\ UNCHANGED <<connVars, zohoVars, ledgerVars, docVars, extVars>>

ClassifyNext ==
    \/ \E ls \in LedgerLists, gs \in GroupLists, dbm \in BOOLEAN :
          AnalyzeStart(ls, gs, dbm)
    \/ ClosureCall
    \/ ClosureReturn
    \/ AnalyzeRootReturn
    \/ AnalyzeClassify

(***************************************************************************)
(* get_ledger_map_from_tally (journel_backend) and its cache               *)
(***************************************************************************)
\* "if parent_name in vendor_groups: vendor / elif parent_name in
\*  customer_groups: customer / else: account"
JournalLedgerType(parent_name, vendor_groups, customer_groups) ==
    IF parent_name \in vendor_groups THEN "vendor"
    ELSE IF parent_name \in customer_groups THEN "customer"
    ELSE "account"

\* ledger_map, as the set of its items
ClassifyLedgerMap(ls, vendor_groups, customer_groups) ==
    { [name |-> ls[i].name,
       ledger_type |-> JournalLedgerType(ls[i].parent, vendor_groups, customer_groups)] :
         i \in DOMAIN ls }

\* "if use_cache and not force_refresh: cached_map = ..; if cached_map:"
\* (cached: the read of the table found rows)
CacheHitInverted(use_cache, force_refresh, cached) ==
    use_cache /\ force_refresh /\ cached

CacheHit(use_cache, force_refresh, cached) ==
    use_cache /\ ~force_refresh /\ cached

\* a caller invokes get_ledger_map_from_tally(use_cache, force_refresh); on
\* a miss the groups are fetched from the ERP, which answers with gs or not
\* at all
GetLedgerMap(use_cache, force_refresh, fetch, gs) ==
    /\ tpc = "idle"
    /\ gets < MaxGets
    /\ gets' = gets + 1
    /\ impl' = "get_ledger_map_from_tally"
    /\ forced' = (~use_cache \/ force_refresh)
    /\ IF CacheHit(use_cache, force_refresh, ledgerCache # {})
       THEN /\ fetch = "ok"
            /\ gs = <<>>
            /\ loaded' = FALSE
            /\ tresult' = ledgerCache
            /\ tpc' = "done"
            /\ UNCHANGED <<groups, root, gstack, visited, descents, expanded>>
       ELSE /\ loaded' = TRUE
            /\ tresult' = {}
            /\ IF fetch = "ok"
               THEN /\ groups' = gs
                    /\ ClosureStart(gs, "get_ledger_map_from_tally", SundryCreditors)
                    /\ tpc' = "closure"
               ELSE \* "except Exception as e: ... return {}"
                    /\ gs = <<>>
                    /\ tpc' = "done"
                    /\ UNCHANGED <<groups, root, gstack, visited, descents, expanded>>
    /\ UNCHANGED <<ledgers, sd, sc, database_manager, db, ledgerCache>>
    /\ UNCHANGED <<connVars, zohoVars, ledgerVars, docVars, extVars>>

\* vendor_groups = get_all_descendants("Sundry Creditors"), then
\* customer_groups = get_all_descendants("Sundry Debtors")
LedgerMapRootReturn ==
    /\ RootReturns
    /\ impl = "get_ledger_map_from_tally"
    /\ IF root = SundryCreditors
       THEN /\ sc' = ClosureSet(impl, root, Top.acc)
            /\ ClosureStart(groups, impl, SundryDebtors)
            /\ UNCHANGED <<sd, tpc>>
       ELSE /\ sd' = ClosureSet(impl, root, Top.acc)
            /\ tpc' = "fetch_ledgers"
            /\ gstack' = <<>>
            /\ UNCHANGED <<sc, root, visited, descents, expanded>>
    /\ UNCHANGED <<impl, groups, ledgers, tresult, database_manager, db,
                   ledgerCache, gets, loaded, forced>>
    /\ UNCHANGED <<connVars, zohoVars, ledgerVars, docVars, extVars>>

\* the ledgers are fetched and classified; a non-empty ledger_map is saved
\* to the cache; the map is returned
FetchLedgers(fetch, ls) ==
    /\ tpc = "fetch_ledgers"
    /\ LET ledger_map == IF fetch = "ok" THEN ClassifyLedgerMap(ls, sc, sd)
                         ELSE {}
       IN /\ ledgerCache' = IF ledger_map # {} THEN ledger_map ELSE ledgerCache
          /\ tresult' = ledger_map
    /\ tpc' = "done"
    /\ UNCHANGED <<impl, groups, ledgers, root, gstack, visited, descents, expanded,
                   sd, sc, database_manager, db, gets, loaded, forced>>
    /\ UNCHANGED <<connVars, zohoVars, ledgerVars, docVars, extVars>>

\* the caller has the map; the locals of the call are gone
LedgerMapReturn ==
    /\ tpc = "done"
    /\ impl = "get_ledger_map_from_tally"
    /\ tpc' = "idle"
    /\ groups' = <<>>
    /\ root' = "none"
    /\ gstack' = <<>>
    /\ visited' = {}
    /\ descents' = 0
    /\ expanded' = <<>>
    /\ sd' = {}
    /\ sc' = {}
    /\ UNCHANGED <<impl, ledgers, tresult, database_manager, db, ledgerCache,
                   gets, loaded, forced>>
    /\ UNCHANGED <<connVars, zohoVars, ledgerVars, docVars, extVars>>

LedgerMapNext ==
    \/ \E use_cache \in BOOLEAN, force_refresh \in BOOLEAN,
          fetch \in {"ok", "exception"}, gs \in NamedHierarchies \cup {<<>>} :
          GetLedgerMap(use_cache, force_refresh, fetch, gs)
    \/ ClosureCall
    \/ ClosureReturn
    \/ LedgerMapRootReturn
    \/ \E fetch \in {"ok", "timeout"}, ls \in LedgerLists \cup {<<>>} :
          FetchLedgers(fetch, ls)
    \/ LedgerMapReturn

(***************************************************************************)
(* Part VI.  sync_groups_to_zoho: the chart of accounts                    *)
(***************************************************************************)
\* runs of sync_groups_to_zoho
MaxSyncRuns == 1

\* account_type = user_type.lower().replace(" ", "_")
AccountTypeOf(user_type) ==
    CASE user_type = "Expense" -> "expense"
      [] user_type = "Other Asset" -> "other_asset"
      [] OTHER -> user_type

\* the saved mapping group_name -> user_type, in the order of its items
Mappings ==
    { <<>>,
      <<[group_name |-> <<"A">>, user_type |-> "Expense"]>>,
      <<[group_name |-> <<"A">>, user_type |-> "Expense"],
        [group_name |-> <<"C">>, user_type |-> "Other Asset"]>>,
      <<[group_name |-> <<"C">>, user_type |-> ""],
        [group_name |-> <<"A">>, user_type |-> "Expense"]>> }

\* the groups and the ledgers of the local database
SyncGroupLists ==
    { <<>>,
      <<[name |-> <<"B">>, parent |-> <<"A">>],
        [name |-> <<"C">>, parent |-> <<"B">>]>>,
      <<[name |-> <<"C">>, parent |-> <<"B">>],
        [name |-> <<"B">>, parent |-> <<"A">>]>> }

SyncLedgerLists ==
    { <<[name |-> <<"D">>, parent |-> <<"B">>],
        [name |-> <<"d">>, parent |-> <<"C">>]>>,
      <<[name |-> <<"D">>, parent |-> <<"Z">>]>> }

\* the chart of accounts of the target before the first run
InitialCharts ==
    { <<>>,
      <<[account_id |-> 1, account_name |-> <<"a">>, account_type |-> "expense",
         parent_account_id |-> 0],
        [account_id |-> 2, account_name |-> <<"B">>, account_type |-> "expense",
         parent_account_id |-> 0],
        [account_id |-> 3, account_name |-> <<"D">>, account_type |-> "expense",
         parent_account_id |-> 2]>> }

NoGroupStats ==
    [created |-> 0, updated |-> 0, failed |-> 0, skipped |-> 0,
     children_created |-> 0, ledgers_created |-> 0]

\* existing_accounts after the listing of the first n accounts: the first
\* account of a name is kept, a later one is a duplicate
RECURSIVE ListedAccounts(_, _)
ListedAccounts(accounts, n) ==
    IF n = 0 THEN <<>>
    ELSE LET prev == ListedAccounts(accounts, n - 1)
             key == Lower(accounts[n].account_name)
         IN IF key \in DOMAIN prev THEN prev ELSE (key :> accounts[n]) @@ prev

\* d[k] = v
Put(d, k, v) == (k :> v) @@ d

\* position of the run: the next record of the phase, or of the next phase
\* that has one, or the return
PhaseAt(ph, i, m, gs, ls) ==
    IF ph = "phase1" /\ i <= Len(m) THEN [pc |-> "phase1", i |-> i]
    ELSE LET j == IF ph = "phase2" THEN i ELSE 1
         IN IF ph \in {"phase1", "phase2"} /\ j <= Len(gs)
            THEN [pc |-> "phase2", i |-> j]
            ELSE LET k == IF ph = "phase3" THEN i ELSE 1
                 IN IF k <= Len(ls) THEN [pc |-> "phase3", i |-> k]
                    ELSE [pc |-> "returned", i |-> 1]

GroupsIdle ==
    /\ gpc = "idle"
    /\ gruns = 0
    /\ mapping = <<>>
    /\ tally_groups = <<>>
    /\ tally_ledgers = <<>>
    /\ existing_accounts = <<>>
    /\ valid_parents = <<>>
    /\ listed = TRUE
    /\ gidx = 1
    /\ gstats = NoGroupStats
    /\ failed_ledgers = <<>>
    /\ greqs = <<>>
    /\ chart = <<>>

\* sync_groups_to_zoho(mapping) up to PHASE 1: the source data from the
\* local database and the listing of the chart of accounts, which stops at
\* the first page that is not answered with code 0
GroupsStart(m, gs, ls, listing) ==
    /\ gpc = "idle"
    /\ gruns < MaxSyncRuns
    /\ gruns' = gruns + 1
    /\ mapping' = m
    /\ IF m = <<>>
       THEN \* "if not mapping: return {"status": "error", ...}"
            /\ gs = <<>>
            /\ ls = <<>>
            /\ listing = "ok"
            /\ gpc' = "error"
            /\ UNCHANGED <<tally_groups, tally_ledgers, existing_accounts, listed,
                           gidx>>
       ELSE /\ tally_groups' = gs
            /\ tally_ledgers' = ls
            /\ listed' = (listing = "ok")
            /\ existing_accounts' =
                  IF listing = "ok" THEN ListedAccounts(chart, Len(chart)) ELSE <<>>
            /\ gpc' = PhaseAt("phase1", 1, m, gs, ls).pc
            /\ gidx' = PhaseAt("phase1", 1, m, gs, ls).i
    /\ valid_parents' = <<>>
    /\ gstats' = NoGroupStats
    /\ failed_ledgers' = <<>>
    /\ greqs' = <<>>
    /\ UNCHANGED chart
    /\ UNCHANGED <<connVars, zohoVars, ledgerVars, docVars, tallyVars, cacheVars,
                   erpVars>>

\* the account a successful POST /chartofaccounts answers with
NewAccount(name, account_type, parent_account_id) ==
    [account_id |-> Len(chart) + 1, account_name |-> name,
     account_type |-> account_type, parent_account_id |-> parent_account_id]

\* a request of the run, as sent and as answered
Request(verb, name, account_type, parent_account_id, under, res) ==
    [method |-> verb, name |-> name, account_type |-> account_type,
     parent_account_id |-> parent_account_id, under |-> under, res |-> res]

Advance ==
    /\ gpc' = PhaseAt(gpc, gidx + 1, mapping, tally_groups, tally_ledgers).pc
    /\ gidx' = PhaseAt(gpc, gidx + 1, mapping, tally_groups, tally_ledgers).i

\* one iteration of "for group_name, user_type in mapping.items()"
Phase1Step(res) ==
    /\ gpc = "phase1"
    /\ LET group_name == mapping[gidx].group_name
           user_type == mapping[gidx].user_type
           group_key == Lower(group_name)
           account_type == AccountTypeOf(user_type)
       IN IF user_type = ""
          THEN /\ res = "ok"
               /\ UNCHANGED <<existing_accounts, valid_parents, gstats, greqs, chart>>
          ELSE IF group_key \in DOMAIN existing_accounts
          THEN /\ res = "ok"
               /\ valid_parents' =
                     Put(valid_parents, group_name,
                         [id |-> existing_accounts[group_key].account_id,
                          type |-> account_type])
               /\ UNCHANGED <<existing_accounts, gstats, greqs, chart>>
          ELSE LET new_acc == NewAccount(group_name, account_type, 0)
               IN /\ greqs' = Append(greqs,
                        Request("POST", group_name, account_type, 0, <<>>, res))
                  /\ IF res = "ok"
                     THEN /\ chart' = Append(chart, new_acc)
                          /\ gstats' = [gstats EXCEPT !.created = @ + 1]
                          /\ existing_accounts' =
                                Put(existing_accounts, group_key, new_acc)
                          /\ valid_parents' =
                                Put(valid_parents, group_name,
                                    [id |-> new_acc.account_id, type |-> account_type])
                     ELSE /\ gstats' = [gstats EXCEPT !.failed = @ + 1]
                          /\ UNCHANGED <<existing_accounts, valid_parents, chart>>
    /\ Advance
    /\ UNCHANGED <<gruns, mapping, tally_groups, tally_ledgers, listed, failed_ledgers>>
    /\ UNCHANGED <<connVars, zohoVars, ledgerVars, docVars, tallyVars, cacheVars,
                   erpVars>>

\* "account_type = parent_info["type"]  # Inherit Type"
InheritTypeDefault(parent_info) == "expense"

InheritType(parent_info) == parent_info.type

\* "if str(current_parent_id) != str(parent_zoho_id)"
ParentMismatch(current_parent_id, parent_zoho_id) ==
    current_parent_id # parent_zoho_id

\* PUT /chartofaccounts/{acc_id} with a new parent_account_id, answered
\* with code 0
Relink(accounts, acc_id, parent_zoho_id) ==
    [i \in DOMAIN accounts |->
        IF accounts[i].account_id = acc_id
        THEN [accounts[i] EXCEPT !.parent_account_id = parent_zoho_id]
        ELSE accounts[i]]

\* one iteration of "for grp in tally_groups" (PHASE 2) or of "for ledger in
\* tally_ledgers" (PHASE 3); the two loops differ in the counter of a
\* creation, in valid_parents, which only groups enter, and in
\* failed_ledgers, which only ledgers enter
ChildStep(ph, res) ==
    /\ LET rec == IF ph = "phase2" THEN tally_groups[gidx] ELSE tally_ledgers[gidx]
           key == Lower(rec.name)
       IN IF rec.parent \notin DOMAIN valid_parents
          THEN /\ res = "ok"
               /\ UNCHANGED <<existing_accounts, valid_parents, gstats,
                              failed_ledgers, greqs, chart>>
          ELSE LET parent_info == valid_parents[rec.parent]
                   parent_zoho_id == parent_info.id
                   account_type == InheritType(parent_info)
               IN IF key \in DOMAIN existing_accounts
                  THEN LET existing == existing_accounts[key]
                           acc_id == existing.account_id
                       IN /\ IF ParentMismatch(existing.parent_account_id,
                                               parent_zoho_id)
                             THEN /\ greqs' = Append(greqs,
                                        Request("PUT", rec.name, "", parent_zoho_id,
                                                rec.parent, res))
                                  /\ IF res = "ok"
                                     THEN /\ gstats' =
                                               [gstats EXCEPT !.updated = @ + 1]
                                          /\ chart' = Relink(chart, acc_id,
                                                             parent_zoho_id)
                                     ELSE UNCHANGED <<gstats, chart>>
                             ELSE /\ res = "ok"
                                  /\ gstats' = [gstats EXCEPT !.skipped = @ + 1]
                                  /\ UNCHANGED <<greqs, chart>>
                          /\ valid_parents' =
                                IF ph = "phase2"
                                THEN Put(valid_parents, rec.name,
                                         [id |-> acc_id, type |-> account_type])
                                ELSE valid_parents
                          /\ UNCHANGED <<existing_accounts, failed_ledgers>>
                  ELSE LET new_acc == NewAccount(rec.name, account_type,
                                                 parent_zoho_id)
                       IN /\ greqs' = Append(greqs,
                                Request("POST", rec.name, account_type,
                                        parent_zoho_id, rec.parent, res))
                          /\ IF res = "ok"
                             THEN /\ chart' = Append(chart, new_acc)
                                  /\ gstats' =
                                        IF ph = "phase2"
                                        THEN [gstats EXCEPT !.children_created = @ + 1]
                                        ELSE [gstats EXCEPT !.ledgers_created = @ + 1]
                                  /\ existing_accounts' =
                                        Put(existing_accounts, key, new_acc)
                                  /\ valid_parents' =
                                        IF ph = "phase2"
                                        THEN Put(valid_parents, rec.name,
                                                 [id |-> new_acc.account_id,
                                                  type |-> account_type])
                                        ELSE valid_parents
                                  /\ UNCHANGED failed_ledgers
                             ELSE /\ gstats' = [gstats EXCEPT !.failed = @ + 1]
                                  /\ failed_ledgers' =
                                        IF ph = "phase3"
                                        THEN Append(failed_ledgers,
                                                [name |-> rec.name,
                                                 parent |-> rec.parent,
                                                 inherited_type |-> account_type])
                                        ELSE failed_ledgers
                                  /\ UNCHANGED <<existing_accounts, valid_parents,
                                                 chart>>
    /\ Advance
    /\ UNCHANGED <<gruns, mapping, tally_groups, tally_ledgers, listed>>
    /\ UNCHANGED <<connVars, zohoVars, ledgerVars, docVars, tallyVars, cacheVars,
                   erpVars>>

Phase2Step(res) ==
    /\ gpc = "phase2"
    /\ ChildStep("phase2", res)

Phase3Step(res) ==
    /\ gpc = "phase3"
    /\ ChildStep("phase3", res)

\* the caller has the result; the locals of the run are gone
GroupsReturn ==
    /\ gpc \in {"returned", "error"}
    /\ gpc' = "idle"
    /\ mapping' = <<>>
    /\ tally_groups' = <<>>
    /\ tally_ledgers' = <<>>
    /\ existing_accounts' = <<>>
    /\ valid_parents' = <<>>
    /\ listed' = TRUE
    /\ gidx' = 1
    /\ gstats' = NoGroupStats
    /\ failed_ledgers' = <<>>
    /\ greqs' = <<>>
    /\ UNCHANGED <<gruns, chart>>
    /\ UNCHANGED <<connVars, zohoVars, ledgerVars, docVars, tallyVars, cacheVars,
                   erpVars>>

GroupsNext ==
    \/ \E m \in Mappings, gs \in SyncGroupLists,
          ls \in SyncLedgerLists \cup {<<>>}, listing \in {"ok", "error"} :
          GroupsStart(m, gs, ls, listing)
    \/ \E res \in {"ok", "error"} : Phase1Step(res)
    \/ \E res \in {"ok", "error"} : Phase2Step(res)
    \/ \E res \in {"ok", "error"} : Phase3Step(res)
    \/ GroupsReturn

(***************************************************************************)
(* Part V.  The cache database of the journal flow                         *)
(***************************************************************************)
\* calls of get_zoho_contacts and get_zoho_accounts
MaxZohoGets == 2

\* what GET /contacts lists: contact_id, contact_name, contact_type
ListedContacts ==
    [ab |-> [contact_id |-> 1, contact_type |-> "customer", contact_name |-> <<"A", "b">>],
     cd |-> [contact_id |-> 2, contact_type |-> "vendor", contact_name |-> <<"c", "d">>],
     ab2 |-> [contact_id |-> 3, contact_type |-> "customer",
              contact_name |-> <<"a", "b", " ">>]]

ContactListings ==
    { <<>>, <<ListedContacts.ab, ListedContacts.cd>>, <<ListedContacts.ab>>,
      <<ListedContacts.ab, ListedContacts.ab2>> }

\* what GET /chartofaccounts lists: account_id, account_name
AccountListings ==
    { <<>>,
      <<[account_id |-> 11, account_name |-> <<"A">>]>>,
      <<[account_id |-> 11, account_name |-> <<"A">>],
        [account_id |-> 12, account_name |-> <<"b", " ">>]>> }

\* "INSERT OR REPLACE INTO t ..." on a table whose primary key is field pk:
\* the row with the same key goes, the new row is the last one
InsertOrReplace(table, row, pk) ==
    Append(SelectSeq(table, LAMBDA r : r[pk] # row[pk]), row)

\* the contact_map of get_zoho_contacts over the first n listed contacts
RECURSIVE ListedContactMap(_, _)
ListedContactMap(listing, n) ==
    IF n = 0 THEN <<>>
    ELSE DictSet(ListedContactMap(listing, n - 1),
                 ContactKey(listing[n].contact_name), listing[n])

\* account_map of get_zoho_accounts over the first n listed accounts
RECURSIVE ListedAccountMap(_, _)
ListedAccountMap(listing, n) ==
    IF n = 0 THEN <<>>
    ELSE DictSet(ListedAccountMap(listing, n - 1),
                 ContactKey(listing[n].account_name), listing[n].account_id)

\* save_zoho_contacts_to_cache: "DELETE FROM zoho_contacts", then one
\* INSERT OR REPLACE per item of the first n items of the map
RECURSIVE save_zoho_contacts_to_cache(_, _, _)
save_zoho_contacts_to_cache(table, cmap, n) ==
    IF n = 0 THEN <<>>
    ELSE InsertOrReplace(save_zoho_contacts_to_cache(table, cmap, n - 1),
            [contact_id |-> cmap[n].contact.contact_id,
             contact_name |-> cmap[n].contact.contact_name,
             contact_name_lower |-> cmap[n].key,
             contact_type |-> cmap[n].contact.contact_type],
            "contact_id")

\* get_zoho_contacts_from_cache: None when the table has no row
RECURSIVE RowsToContactMap(_, _)
RowsToContactMap(rows, n) ==
    IF n = 0 THEN <<>>
    ELSE DictSet(RowsToContactMap(rows, n - 1), rows[n].contact_name_lower,
                 [contact_id |-> rows[n].contact_id,
                  contact_type |-> rows[n].contact_type,
                  contact_name |-> rows[n].contact_name])

get_zoho_contacts_from_cache(table) ==
    [found |-> table # <<>>, map |-> RowsToContactMap(table, Len(table))]

\* save_zoho_accounts_to_cache and get_zoho_accounts_from_cache
RECURSIVE save_zoho_accounts_to_cache(_, _, _)
save_zoho_accounts_to_cache(table, account_map, n) ==
    IF n = 0 THEN <<>>
    ELSE InsertOrReplace(save_zoho_accounts_to_cache(table, account_map, n - 1),
            [account_id |-> account_map[n].contact,
             account_name_lower |-> account_map[n].key],
            "account_id")

RECURSIVE RowsToAccountMap(_, _)
RowsToAccountMap(rows, n) ==
    IF n = 0 THEN <<>>
    ELSE DictSet(RowsToAccountMap(rows, n - 1), rows[n].account_name_lower,
                 rows[n].account_id)

get_zoho_accounts_from_cache(table) ==
    [found |-> table # <<>>, map |-> RowsToAccountMap(table, Len(table))]

CacheIdle ==
    /\ zoho_contacts = <<>>
    /\ zoho_accounts = <<>>
    /\ zgets = 0
    /\ zlast = [fn |-> "none", forced |-> FALSE, loaded |-> FALSE, value |-> <<>>]

\* get_zoho_contacts(token, use_cache, force_refresh) while GET /contacts
\* lists listing
GetZohoContacts(use_cache, force_refresh, listing) ==
    /\ tpc = "idle"
    /\ zgets < MaxZohoGets
    /\ zgets' = zgets + 1
    /\ LET cached_contacts == get_zoho_contacts_from_cache(zoho_contacts)
           cmap == ListedContactMap(listing, Len(listing))
       IN IF CacheHit(use_cache, force_refresh, cached_contacts.found)
          THEN /\ listing = <<>>
               /\ zlast' = [fn |-> "get_zoho_contacts", forced |-> FALSE,
                            loaded |-> FALSE, value |-> cached_contacts.map]
               /\ UNCHANGED zoho_contacts
          ELSE /\ zoho_contacts' =
                     save_zoho_contacts_to_cache(zoho_contacts, cmap,
                                                 Len(cmap))
               /\ zlast' = [fn |-> "get_zoho_contacts",
                            forced |-> (~use_cache \/ force_refresh),
                            loaded |-> TRUE, value |-> cmap]
    /\ UNCHANGED <<zoho_accounts, erpVars, groupVars>>
    /\ UNCHANGED <<connVars, zohoVars, ledgerVars, docVars, tallyVars>>

\* get_zoho_accounts(token, use_cache, force_refresh) while
\* GET /chartofaccounts lists listing
GetZohoAccounts(use_cache, force_refresh, listing) ==
    /\ tpc = "idle"
    /\ zgets < MaxZohoGets
    /\ zgets' = zgets + 1
    /\ LET cached_accounts == get_zoho_accounts_from_cache(zoho_accounts)
           account_map == ListedAccountMap(listing, Len(listing))
       IN IF CacheHit(use_cache, force_refresh, cached_accounts.found)
          THEN /\ listing = <<>>
               /\ zlast' = [fn |-> "get_zoho_accounts", forced |-> FALSE,
                            loaded |-> FALSE, value |-> cached_accounts.map]
               /\ UNCHANGED zoho_accounts
          ELSE /\ zoho_accounts' =
                     save_zoho_accounts_to_cache(zoho_accounts, account_map,
                                                 Len(account_map))
               /\ zlast' = [fn |-> "get_zoho_accounts",
                            forced |-> (~use_cache \/ force_refresh),
                            loaded |-> TRUE, value |-> account_map]
    /\ UNCHANGED <<zoho_contacts, erpVars, groupVars>>
    /\ UNCHANGED <<connVars, zohoVars, ledgerVars, docVars, tallyVars>>

ErpIdle == tallyGroups = <<>>

\* the parts of the state that only Parts V and VI move
ExtIdle == CacheIdle /\ ErpIdle /\ GroupsIdle

CacheNext ==
    \/ LedgerMapNext
    \/ \E use_cache \in BOOLEAN, force_refresh \in BOOLEAN,
          listing \in ContactListings :
          GetZohoContacts(use_cache, force_refresh, listing)
    \/ \E use_cache \in BOOLEAN, force_refresh \in BOOLEAN,
          listing \in AccountListings :
          GetZohoAccounts(use_cache, force_refresh, listing)

(***************************************************************************)
(* The ERP masters change between two reads of the ledger map              *)
(***************************************************************************)
\* an operator of the ERP regroups the masters
TallyRegroup(gs) ==
    /\ tpc = "idle"
    /\ gs # tallyGroups
    /\ tallyGroups' = gs
    /\ UNCHANGED <<connVars, zohoVars, ledgerVars, docVars, tallyVars, cacheVars,
                   groupVars>>

\* get_ledger_map_from_tally, whose group request is answered from the
\* masters the ERP holds at that moment
GetLedgerMapNow(use_cache, force_refresh, fetch) ==
    \E gs \in {<<>>, tallyGroups} :
        /\ GetLedgerMap(use_cache, force_refresh, fetch, gs)
        /\ tpc' = "closure" => gs = tallyGroups

RolesNext ==
    \/ \E gs \in NamedHierarchies : TallyRegroup(gs)
    \/ \E use_cache \in BOOLEAN, force_refresh \in BOOLEAN,
          fetch \in {"ok", "exception"} :
          GetLedgerMapNow(use_cache, force_refresh, fetch)
    \/ ClosureCall
    \/ ClosureReturn
    \/ LedgerMapRootReturn
    \/ \E fetch \in {"ok", "timeout"}, ls \in LedgerLists \cup {<<>>} :
          FetchLedgers(fetch, ls)
    \/ LedgerMapReturn

(***************************************************************************)
(* Specifications                                                          *)
(***************************************************************************)
Init == ConnInit /\ ZohoIdle /\ LedgerIdle /\ DocIdle /\ TallyIdle /\ ExtIdle

Next == ConnNext

\* the connector under arbitrary callers and transport outcomes
Spec == Init /\ [][Next]_vars

LedgerSpecInit ==
    ConnInit /\ creds /\ ZohoInit /\ LedgerIdle /\ DocIdle /\ TallyIdle
    /\ ExtIdle

\* runs of sync_ledgers_to_zoho against the target system
SpecLedgers == LedgerSpecInit /\ [][LedgerNext]_vars

JournalSpecInit ==
    ConnInit /\ creds /\ ZohoInitJournal /\ LedgerIdle /\ DocIdle /\ TallyIdle
    /\ ExtIdle

\* runs of sync_journals_to_zoho against the target system
SpecJournal == JournalSpecInit /\ [][JournalNext]_vars

DocSpecInit ==
    ConnInit /\ creds /\ ZohoInitDocs /\ LedgerIdle /\ DocIdle /\ TallyIdle
    /\ ExtIdle

\* runs of sync_bills_to_zoho, sync_sales_orders_to_zoho and
\* sync_purchase_orders_to_zoho against the target system
SpecDocs == DocSpecInit /\ [][DocNext]_vars

TallySpecInit ==
    ConnInit /\ creds /\ ZohoIdle /\ LedgerIdle /\ DocIdle /\ TallyIdle
    /\ ExtIdle

\* analyze_ledgers over the group lists and ledger lists of the model
SpecClassify == TallySpecInit /\ [][ClassifyNext]_vars

\* calls of get_ledger_map_from_tally against the ERP and the cache
SpecLedgerMap == TallySpecInit /\ [][LedgerMapNext]_vars

\* the three cached reads of the journal flow
SpecCache == TallySpecInit /\ [][CacheNext]_vars

GroupsSpecInit ==
    /\ ConnInit /\ creds /\ ZohoIdle /\ LedgerIdle /\ DocIdle /\ TallyIdle
    /\ CacheIdle /\ ErpIdle
    /\ gpc = "idle" /\ gruns = 0 /\ mapping = <<>> /\ tally_groups = <<>>
    /\ tally_ledgers = <<>> /\ existing_accounts = <<>> /\ valid_parents = <<>>
    /\ listed = TRUE /\ gidx = 1 /\ gstats = NoGroupStats
    /\ failed_ledgers = <<>> /\ greqs = <<>>
    /\ chart \in InitialCharts

\* runs of sync_groups_to_zoho against the target's chart of accounts
SpecGroups == GroupsSpecInit /\ [][GroupsNext]_vars

RolesSpecInit ==
    /\ ConnInit /\ creds /\ ZohoIdle /\ LedgerIdle /\ DocIdle /\ TallyIdle
    /\ CacheIdle
    /\ GroupsIdle
    /\ tallyGroups \in NamedHierarchies

\* reads of the ledger map while the ERP masters change
SpecRoles == RolesSpecInit /\ [][RolesNext]_vars

\* either of the two
TallyNext ==
    \/ \E ls \in LedgerLists, gs \in GroupLists, dbm \in BOOLEAN :
          AnalyzeStart(ls, gs, dbm)
    \/ AnalyzeRootReturn
    \/ AnalyzeClassify
    \/ LedgerMapNext

SpecTally == TallySpecInit /\ [][TallyNext]_vars

(***************************************************************************)
(* Claims about sync_ledgers_to_zoho, checked under SpecLedgers            *)
(***************************************************************************)
\* C1: a create request is issued for a party only when no record created by
\* an earlier run or an earlier record of this run is that party.  (A failed
\* pre-load leaves the in-memory directory without them.)
C1_NoDuplicateCreate ==
    [][nposts' > nposts => lastPost' \notin SyncedParties]_vars

\* C4: a batch never raises, and when it returns it accounts for each of its
\* N records.  (A record without "name" raises KeyError out of the loop.)
C4_BatchNeverRaises ==
    /\ lpc # "raised"
    /\ lpc = "returned" =>
          /\ Len(loutcomes) = Len(ledgers_to_sync)
          /\ stats.created + stats.skipped + stats.failed = Len(ledgers_to_sync)

FailedOutcomes == {i \in DOMAIN loutcomes : loutcomes[i].action = "failed"}

\* C5: records are processed one at a time in input order; a record whose
\* create request returns a failure is counted failed and named in
\* failed_contacts, and every later record is still processed: a run that
\* returns has an outcome for every record.
C5_FailureDoesNotAbort ==
    /\ \A i \in DOMAIN loutcomes : loutcomes[i].rec = i
    /\ lpc = "loop" => lidx = Len(loutcomes) + 1
    /\ stats.failed = Cardinality(FailedOutcomes)
    /\ Len(failed_names) = stats.failed
    /\ lpc = "returned" => Len(loutcomes) = Len(ledgers_to_sync)

\* a returned run of two records whose first record failed
C5_Witness ==
    /\ lpc = "returned"
    /\ Len(ledgers_to_sync) = 2
    /\ Len(loutcomes) = 2
    /\ loutcomes[1].action = "failed"

(***************************************************************************)
(* Claims about the document batches                                       *)
(***************************************************************************)
\* the line item at hand names a party that the journal resolver finds
\* neither under its exact key nor by containment
JournalLineMisses ==
    /\ dpc = "loop"
    /\ flow = "journals"
    /\ "line_items" \in DOMAIN docs_to_sync[didx]
    /\ jline <= Len(docs_to_sync[didx].line_items)
    /\ LET item == docs_to_sync[didx].line_items[jline]
       IN /\ item.ledger_type \in {"vendor", "customer"}
          /\ journal_find_contact(contact_map, item.ledger_name) = NoContact

\* C2: when the resolver finds no exact and no fuzzy match for a party name,
\* no request that creates the party is issued; the miss is only reported.
\* Checked under SpecJournal.  (find_or_create_contact of the journals, which
\* the invoices import, posts the contact on a miss.)
C2_NoAutoCreateOnMiss ==
    [][JournalLineMisses => nposts' = nposts]_vars

\* the document at hand names a party whose resolution ends without a
\* contact (bills) or without a contact of sufficient confidence (orders)
ResolutionFails ==
    /\ dpc = "loop"
    /\ LET d == docs_to_sync[didx]
       IN \/ /\ flow = "bills"
             /\ "vendor_name" \in DOMAIN d
             /\ bills_find_or_create_contact(contact_map, d.vendor_name).contact
                   = NoContact
          \/ /\ flow \in OrderFlows
             /\ OrderHasParty(flow, d)
             /\ LET r == find_customer_in_zoho(OrderParty(flow, d), contact_map)
                IN \/ r.contact = NoContact
                   \/ r.score # 100 /\ r.score < SALES_MIN_SCORE

\* C3: a document whose party resolution fails goes straight to a failed
\* outcome: the step that handles it sends no document request, counts the
\* document failed and moves on to the next one.  Checked under SpecDocs.
C3_UnresolvedNeverApplied ==
    [][ResolutionFails =>
          /\ docPosts' = docPosts
          /\ dstats'.failed = dstats.failed + 1
          /\ dstats'.created = dstats.created
          /\ Len(dstats'.errors) = Len(dstats.errors) + 1
          /\ didx' = didx + 1]_vars

\* a sales order for "abce" against a directory that holds "abcd" (score 75,
\* below the 80 the orders require) has ended failed with nothing posted
C3_Witness ==
    /\ flow = "sales_orders"
    /\ contact_map # <<>>
    /\ docs_to_sync # <<>>
    /\ docs_to_sync[1] = [sales_order_number |-> 1,
                          customer_name |-> <<"a", "b", "c", "e">>]
    /\ find_customer_in_zoho(<<"a", "b", "c", "e">>, contact_map).score = 75
    /\ Len(doutcomes) >= 1
    /\ doutcomes[1].action = "failed"
    /\ ~doutcomes[1].posted
    /\ docPosts = 0

(***************************************************************************)
(* Claims about the resolvers, checked under SpecDocs on the document the  *)
(* batch has at hand                                                       *)
(***************************************************************************)
\* the batch is about to resolve the party of a well-formed document
DocAtHand ==
    /\ dpc = "loop"
    /\ flow = "bills" => "vendor_name" \in DOMAIN docs_to_sync[didx]
    /\ flow \in OrderFlows => OrderHasParty(flow, docs_to_sync[didx])

PartyAtHand ==
    IF flow = "bills" THEN docs_to_sync[didx].vendor_name
    ELSE OrderParty(flow, docs_to_sync[didx])

\* the key under which the resolver of the running flow looks the name up
QueryKeyAtHand ==
    IF flow = "bills" THEN Strip(Lower(PartyAtHand)) ELSE Lower(PartyAtHand)

\* what the resolver of the running flow returns for the party at hand
\* against the directory map
ResolveAtHand(map) ==
    IF flow = "bills"
    THEN LET r == bills_find_or_create_contact(map, PartyAtHand)
         IN [contact |-> r.contact, score |-> r.score]
    ELSE find_customer_in_zoho(PartyAtHand, map)

\* the resolution at hand is a fuzzy accept: a contact, not by the exact
\* path, of a score the flow proceeds with
FuzzyAcceptAtHand ==
    /\ DocAtHand
    /\ QueryKeyAtHand \notin Keys(contact_map)
    /\ ResolveAtHand(contact_map).contact # NoContact
    /\ flow \in OrderFlows => ~LowConfidence(ResolveAtHand(contact_map).score)

\* C11: after a name was resolved by a fuzzy accept, a second resolution of
\* the same spelling against the directory the first one left takes the
\* exact path (score 100) and returns the same contact.  (The resolver of
\* the sales and purchase orders does not add the spelling to the directory.)
C11_SecondResolutionExact ==
    [][FuzzyAcceptAtHand =>
          /\ QueryKeyAtHand \in Keys(contact_map')
          /\ ResolveAtHand(contact_map').score = 100
          /\ ResolveAtHand(contact_map').contact
                = ResolveAtHand(contact_map).contact]_vars

\* C12: without an exact match, the document goes on to be posted if and
\* only if the best candidate scores at least 75.  (The orders require 80.)
C12_AcceptAtLeast75 ==
    [][(DocAtHand /\ QueryKeyAtHand \notin Keys(contact_map)) =>
          LET best == BestMatch(QueryKeyAtHand, contact_map, Len(contact_map))
          IN (docPosts' = docPosts + 1) <=> (best.idx # 0 /\ best.score >= 75)]_vars

\* C13: when the name, case-folded and trimmed, is a key of the directory,
\* the resolver returns that key's contact with score 100.  (The resolver
\* of the orders folds the case but does not trim.)
C13_ExactAfterFoldAndTrim ==
    (DocAtHand /\ Strip(Lower(PartyAtHand)) \in Keys(contact_map)) =>
        /\ ResolveAtHand(contact_map).score = 100
        /\ ResolveAtHand(contact_map).contact
              = Lookup(contact_map, Strip(Lower(PartyAtHand)))

(***************************************************************************)
(* Claims about the closure of a root group, checked under SpecTally       *)
(***************************************************************************)
RECURSIVE ReachFrom(_, _)
\* the names reached from the names of S along the parent-to-child records
\* of gs, those of S included
ReachFrom(gs, S) ==
    LET T == S \cup {gs[i].name : i \in {j \in DOMAIN gs : gs[j].parent \in S}}
    IN IF T = S THEN S ELSE ReachFrom(gs, T)

\* both closures have just been computed
ClosuresComputed == tpc \in {"classify", "fetch_ledgers"}

\* C14: the closure computed for a root is the root together with exactly
\* the groups reachable from it along parent-to-child records, whatever the
\* records are; for A and C below the root and B below A it is
\* {root, A, B, C}
C14_ClosureIsReachableSet ==
    /\ RootReturns =>
          ClosureSet(impl, root, Top.acc) = ReachFrom(groups, {root})
    /\ ClosuresComputed =>
          /\ sd = ReachFrom(groups, {SundryDebtors})
          /\ sc = ReachFrom(groups, {SundryCreditors})
    /\ (ClosuresComputed /\ groups = ExampleGroups) =>
          sd = {SundryDebtors, "A", "B", "C"}

C14_Witness ==
    /\ ClosuresComputed
    /\ groups = ExampleGroups
    /\ sd = {SundryDebtors, "A", "B", "C"}
    /\ sc = {SundryCreditors}

\* the groups reachable from r include one that is below itself
CycleFromRoot(gs, r) ==
    \E g \in ReachFrom(gs, {r}) :
        LET below == {gs[i].name : i \in {j \in DOMAIN gs : gs[j].parent = g}}
        IN below # {} /\ g \in ReachFrom(gs, below)

NoDuplicates(s) == \A i, j \in DOMAIN s : s[i] = s[j] => i = j

\* C15: on a hierarchy with a cycle reachable from the root the closure
\* computation terminates (the number of calls never exceeds one per group
\* record plus the top-level call, and the call stack holds distinct
\* groups), no group gets past the visited check twice, and nothing outside
\* the groups reachable from the root is ever collected
C15_CycleTerminatesVisitingOnce ==
    (tpc = "closure" /\ CycleFromRoot(groups, root)) =>
        /\ descents <= 1 + Len(groups)
        /\ Len(gstack) <= Cardinality(visited)
        /\ NoDuplicates(expanded)
        /\ visited = Range(expanded)
        /\ \A k \in DOMAIN gstack : gstack[k].acc \subseteq ReachFrom(groups, {root})
        /\ RootReturns =>
              ClosureSet(impl, root, Top.acc) = Range(expanded)

C15_Witness ==
    /\ RootReturns
    /\ groups = CyclicGroups
    /\ root = SundryDebtors
    /\ descents = 4
    /\ expanded = <<SundryDebtors, "A", "B">>
    /\ ClosureSet(impl, root, Top.acc) = {SundryDebtors, "A", "B"}

(***************************************************************************)
(* Claims about analyze_ledgers, checked under SpecClassify                *)
(***************************************************************************)
Receivables == ReachFrom(groups, {SundryDebtors})

Payables == ReachFrom(groups, {SundryCreditors})

\* the number of the three returned lists that hold the ledger named n
ListsHolding(n) ==
    Cardinality({k \in {"sundry_debtors", "sundry_creditors", "other_ledgers"} :
                   \E i \in DOMAIN tresult[k] : tresult[k][i].name = n})

\* C16: analyze_ledgers gives every ledger exactly one role: customer when
\* its parent group is in the closure of the receivables root, vendor when
\* it is in the closure of the payables root (and not in the former), other
\* in every remaining case; the ledger is in the returned list of that role
\* and in no other
C16_ExactlyOneRole ==
    (tpc = "done" /\ impl = "analyze_ledgers") =>
        /\ Len(tresult.ledgers) = Len(ledgers)
        /\ \A i \in DOMAIN tresult.ledgers :
              LET l == tresult.ledgers[i]
              IN /\ l.type \in {"customer", "vendor", "other"}
                 /\ l.parent \in Receivables => l.type = "customer"
                 /\ l.parent \in Payables \ Receivables => l.type = "vendor"
                 /\ l.parent \notin Receivables \cup Payables => l.type = "other"
                 /\ ListsHolding(l.name) = 1
                 /\ l.type = "customer" =>
                       \E k \in DOMAIN tresult.sundry_debtors :
                           tresult.sundry_debtors[k] = l
                 /\ l.type = "vendor" =>
                       \E k \in DOMAIN tresult.sundry_creditors :
                           tresult.sundry_creditors[k] = l
                 /\ l.type = "other" =>
                       \E k \in DOMAIN tresult.other_ledgers :
                           tresult.other_ledgers[k] = l

C16_Witness ==
    /\ tpc = "done"
    /\ impl = "analyze_ledgers"
    /\ groups = << [name |-> "A", parent |-> SundryDebtors],
                   [name |-> "B", parent |-> "A"] >>
    /\ [i \in DOMAIN tresult.ledgers |-> tresult.ledgers[i].type]
          = <<"customer", "vendor", "customer", "customer", "other">>

\* C18: analyze_ledgers changes nothing but its return value: when it has
\* returned, the ledger records it was handed have the fields they came
\* with and the local database has the rows it had before the call (none)
C18_ClassifyIsPure ==
    (tpc = "done" /\ impl = "analyze_ledgers") =>
        /\ \A i \in DOMAIN ledgers : DOMAIN ledgers[i] = {"name", "parent"}
        /\ db = {}

(***************************************************************************)
(* Claims about both classifiers, checked under SpecTally                  *)
(***************************************************************************)
\* C17: wherever ledgers are classified, a ledger whose parent group is in
\* both closures comes out as customer
C17_ReceivablesWinTie ==
    [][/\ (tpc = "classify" /\ tpc' = "done") =>
             \A i \in DOMAIN ledgers' :
                 ledgers'[i].parent \in sd \cap sc => ledgers'[i].type = "customer"
       /\ (tpc = "fetch_ledgers" /\ tpc' = "done") =>
             \A l \in Range(TallyLedgers) :
                 (l.parent \in sd \cap sc /\ \E e \in tresult' : e.name = l.name)
                    => [name |-> l.name, ledger_type |-> "customer"] \in tresult']_vars

\* no group record names r, as a group or as a parent
RootUnknown(gs, r) == \A i \in DOMAIN gs : gs[i].name # r /\ gs[i].parent # r

\* C19: for a root that no group record names the closure is the root alone,
\* computed by the top-level call without a further call, and in
\* analyze_ledgers exactly the ledgers whose parent is the root get its role
C19_UnknownRootIsSingleton ==
    /\ (RootReturns /\ RootUnknown(groups, root)) =>
          /\ ClosureSet(impl, root, Top.acc) = {root}
          /\ descents = 1
    /\ (ClosuresComputed /\ RootUnknown(groups, SundryDebtors)) =>
          sd = {SundryDebtors}
    /\ (ClosuresComputed /\ RootUnknown(groups, SundryCreditors)) =>
          sc = {SundryCreditors}
    /\ (tpc = "done" /\ impl = "analyze_ledgers") =>
          \A i \in DOMAIN ledgers :
              /\ RootUnknown(groups, SundryDebtors) =>
                    (ledgers[i].type = "customer"
                        <=> ledgers[i].parent = SundryDebtors)
              /\ RootUnknown(groups, SundryCreditors) =>
                    (ledgers[i].type = "vendor"
                        <=> ledgers[i].parent = SundryCreditors)

C19_Witness ==
    /\ tpc = "done"
    /\ impl = "analyze_ledgers"
    /\ groups = RootlessGroups
    /\ sd = {SundryDebtors}
    /\ sc = {SundryCreditors}
    /\ [i \in DOMAIN ledgers |-> ledgers[i].type]
          = <<"customer", "vendor", "other", "other", "other">>

(***************************************************************************)
(* Claims about the ledger map cache, checked under SpecLedgerMap          *)
(***************************************************************************)
\* C20: a get that is forced, or that finds no snapshot, runs the loader,
\* and when it returns the snapshot is the value it returns; the next get,
\* when it is not forced, returns that same value without loading
C20_RefreshPersistsAndSticks ==
    [][/\ (tpc = "idle" /\ gets' = gets + 1 /\ (forced' \/ ledgerCache = {})) =>
             loaded'
       /\ (tpc # "done" /\ tpc' = "done" /\ loaded') =>
             ledgerCache' = tresult'
       /\ (tpc = "idle" /\ gets >= 1 /\ loaded /\ gets' = gets + 1 /\ ~forced') =>
             (tpc' = "done" /\ tresult' = tresult)]_vars

C22_RoleReadIsRoleDerived ==
    (tpc = "done" /\ impl = "get_ledger_map_from_tally") =>
        \A e \in tresult :
            \A i \in DOMAIN TallyLedgers :
                TallyLedgers[i].name = e.name =>
                    e.ledger_type =
                        JournalLedgerType(TallyLedgers[i].parent,
                            ReachFrom(tallyGroups, {SundryCreditors}),
                            ReachFrom(tallyGroups, {SundryDebtors}))

(***************************************************************************)
(* Claims about the errors list of the document batches, under SpecDocs    *)
(***************************************************************************)
NumberAtHand ==
    IF flow = "bills" THEN docs_to_sync[didx].bill_number
    ELSE OrderNumber(flow, docs_to_sync[didx])

\* C23: when the document at hand fails because its party is not resolved,
\* the item added to the errors list has the number of the record, the name
\* of the party and, if the directory has a best candidate for the name, the
\* candidate's name and its score in the error message
C23_UnresolvedErrorCarriesCandidate ==
    [][(DocAtHand /\ dstats'.failed = dstats.failed + 1 /\ docPosts' = docPosts) =>
          /\ Len(dstats'.errors) = Len(dstats.errors) + 1
          /\ LET e == dstats'.errors[Len(dstats'.errors)]
                 best == BestMatch(QueryKeyAtHand, contact_map, Len(contact_map))
             IN /\ e.number = NumberAtHand
                /\ e.party = PartyAtHand
                /\ best.idx # 0 =>
                      /\ e.error.candidate = contact_map[best.idx].contact.contact_name
                      /\ e.error.score = best.score]_vars


(***************************************************************************)
(* Claims about sync_groups_to_zoho, checked under SpecGroups              *)
(***************************************************************************)
ChartKeys == {Lower(chart[j].account_name) : j \in DOMAIN chart}

SentNow == Len(greqs') = Len(greqs) + 1

\* C24: the kind of a request follows the presence of the record in the
\* target: a PUT is sent only for a record that has an account there, a POST
\* only for a record that has none, and in a run whose listing of the chart
\* failed no POST and no PUT is sent
C24_RequestKindFollowsMatch ==
    [][/\ SentNow =>
             LET r == greqs'[Len(greqs')]
             IN /\ r.method = "PUT" => Lower(r.name) \in ChartKeys
                /\ r.method = "POST" => Lower(r.name) \notin ChartKeys
       /\ ~listed => ~SentNow]_vars

(***************************************************************************)
(* Claims about the termination of api_call, checked under Spec            *)
(***************************************************************************)
\* the steps of one iteration of api_call, in the order they are taken
StageRank ==
    CASE pc = "throttle" -> 0
      [] pc = "headers" -> 1
      [] pc = "refresh" -> 1 + tattempt
      [] pc = "send" -> 2 + TOKEN_ATTEMPTS
      [] OTHER -> 3 + TOKEN_ATTEMPTS

\* how far the running api_call has got
CallRank == attempt * (4 + TOKEN_ATTEMPTS) + StageRank

ChildAtHand ==
    IF gpc = "phase2" THEN tally_groups[gidx] ELSE tally_ledgers[gidx]

\* the sum of the outcome counters of a run
Counted(st) ==
    st.created + st.children_created + st.ledgers_created
        + st.updated + st.skipped + st.failed

\* C26: the step of sync_groups_to_zoho that processes a group or a ledger
\* whose parent is in the valid scope adds one to exactly one of the counters
\* created, children_created, ledgers_created, updated, skipped and failed
C26_ScopedRecordCountedOnce ==
    [][(/\ gpc \in {"phase2", "phase3"}
        /\ ChildAtHand.parent \in DOMAIN valid_parents) =>
            Counted(gstats') = Counted(gstats) + 1]_vars

\* the account types of the mapped groups among a group and its ancestors in
\* the hierarchy of the local database, n levels up
RECURSIVE MappedAncestorTypes(_, _)
MappedAncestorTypes(name, n) ==
    {AccountTypeOf(mapping[i].user_type) :
        i \in {k \in DOMAIN mapping :
                  mapping[k].group_name = name /\ mapping[k].user_type # ""}}
    \cup
    (IF n = 0 THEN {}
     ELSE UNION {MappedAncestorTypes(tally_groups[i].parent, n - 1) :
                    i \in {k \in DOMAIN tally_groups : tally_groups[k].name = name}})

C28_DirectoryChangesOnlyByPinning ==
    [][DocAtHand =>
          contact_map' =
              IF FuzzyAcceptAtHand
              THEN Append(contact_map,
                          [key |-> QueryKeyAtHand,
                           contact |-> ResolveAtHand(contact_map).contact])
              ELSE contact_map]_vars

(***************************************************************************)
(* Claims about the directory tables of the cache, under SpecCache         *)
(***************************************************************************)
\* C29: right after get_zoho_contacts or get_zoho_accounts has fetched a map
\* and saved it, a load from the cache finds a snapshot and returns a map
\* equal to the one saved, whatever the table held before
C29_LoadReturnsSavedMap ==
    /\ (zlast.fn = "get_zoho_contacts" /\ zlast.loaded) =>
          get_zoho_contacts_from_cache(zoho_contacts)
              = [found |-> TRUE, map |-> zlast.value]
    /\ (zlast.fn = "get_zoho_accounts" /\ zlast.loaded) =>
          get_zoho_accounts_from_cache(zoho_accounts)
              = [found |-> TRUE, map |-> zlast.value]

\* the rows of the contacts table that hold contacts of one type
RowsOfType(table, contact_type) ==
    SelectSeq(table, LAMBDA r : r.contact_type = contact_type)

\* C30: a step that changes the cached ledger map leaves the two directory
\* tables as they were, a step that changes a directory table leaves the
\* cached ledger map as it was, and a step that changes the cached customers
\* leaves the cached vendors as they were, and the other way round
C30_NamespacesIndependent ==
    [][/\ ledgerCache' # ledgerCache =>
             /\ zoho_contacts' = zoho_contacts
             /\ zoho_accounts' = zoho_accounts
       /\ (zoho_contacts' # zoho_contacts \/ zoho_accounts' # zoho_accounts) =>
             ledgerCache' = ledgerCache
       /\ RowsOfType(zoho_contacts', "customer")
              # RowsOfType(zoho_contacts, "customer") =>
             RowsOfType(zoho_contacts', "vendor")
                = RowsOfType(zoho_contacts, "vendor")]_vars
(***************************************************************************)
(* Claims about the connector, checked under Spec                          *)
(***************************************************************************)
AllRateLimited == [i \in 1..MAX_RETRIES |-> "rate_limit"]

RateLimitCount == Cardinality({i \in 1..Len(signals) : signals[i] = "rate_limit"})

\* C6: an auth-expired signal makes api_call drop the token and retry with a
\* fresh one, outside the MAX_RETRIES budget: a call never returns right
\* after an auth-expired signal unless no fresh token could be obtained, and
\* it reports the rate-limit failure only after MAX_RETRIES rate-limit
\* signals.  (The code spends a loop iteration on the auth retry.)
C6_AuthRetryOutsideBudget ==
    pc = "done" =>
        /\ (signals # <<>> /\ signals[Len(signals)] = "auth_expired")
              => result = AuthFailed
        /\ result = RateLimitExceeded => RateLimitCount = MAX_RETRIES

\* C7: when all MAX_RETRIES attempts of a call are answered by a rate-limit
\* signal, the call has slept RATE_LIMIT_BACKOFF * attempt after each, has sent
\* exactly MAX_RETRIES requests, and returns the rate-limit failure, a value
\* that differs from success and from every other failure value.
C7_RateLimitExhausted ==
    (pc = "done" /\ signals = AllRateLimited) =>
        /\ sent = MAX_RETRIES
        /\ sleeps = [i \in 1..MAX_RETRIES |-> RATE_LIMIT_BACKOFF * i]
        /\ result = RateLimitExceeded
        /\ result.code # Success.code
        /\ result \notin {Success, ApplicationError, AuthFailed,
                          UnknownMethod, TimedOut, TransportError}

C7_Witness == pc = "done" /\ signals = AllRateLimited

\* C8: rate-limit, rate-limit, success: the call returns the success of its
\* third attempt, and the backoff sleep before the third attempt is longer
\* than the one before the second.
C8_SucceedsOnThirdAttempt ==
    (pc = "done" /\ signals = <<"rate_limit", "rate_limit", "ok">>) =>
        /\ result = Success
        /\ sent = 3
        /\ Len(sleeps) = 2
        /\ sleeps[2] > sleeps[1]

C8_Witness ==
    pc = "done" /\ signals = <<"rate_limit", "rate_limit", "ok">>

\* C9: a token request is sent only when get_access_token found no token or
\* an expired one, and an API request is sent only with a token that was
\* unexpired when get_access_token checked it or was obtained by that very
\* get_headers.  (get_headers runs at the time _throttle stamped.)
C9_TokenReusedUntilExpiry ==
    /\ pc = "refresh" => (access_token = 0 \/ last_call_time >= token_expiry)
    /\ pc = "send" =>
          /\ access_token # 0
          /\ refreshed \/ last_call_time < token_expiry

\* a second call that sends with the token the first call obtained
C9_Witness ==
    /\ calls = 2
    /\ pc = "send"
    /\ method \in KnownMethods
    /\ ~refreshed
    /\ now < token_expiry

\* C10: two consecutive API requests are at least API_CALL_DELAY apart.
\* (_throttle stamps before get_headers: a token refresh delays the request
\* past the stamp, and the next request may follow it at once.)
C10_MinimumSpacing == lastGap = -1 \/ lastGap >= API_CALL_DELAY

=============================================================================
